---- MODULE Spec2Model ----
(***************************************************************************)
(* Model of the SHT3X driver (src/src/sht3x.c with src/src/sht3x.h,        *)
(* sht3x_defs.h and sht3x_private.h).                                      *)
(*                                                                         *)
(* One driver instance. The state is the instance memory (struct           *)
(* SHT3XStruct), the bus writes, bus reads and timers the driver has       *)
(* requested from the caller-supplied hooks and that have not completed    *)
(* yet, and a record of what the last executed function did (its return    *)
(* value and the hook and user callback invocations it made, in order).    *)
(* Every public function and every internal completion handler of the      *)
(* driver is an operator computing its effect on the instance memory.      *)
(***************************************************************************)
EXTENDS Integers, Sequences, FiniteSets, Bags, TLC

VARIABLES
    self,       \* the instance memory, struct SHT3XStruct
    lifecycle,  \* "created", "destroyed" (no free hook), "freed", "crashed"
    pending,    \* bag of hook requests whose completion callback is still owed
    nseq,       \* number of sequences the driver has accepted so far
    last,       \* what the last executed driver function did
    other       \* the memory of a second instance, if the program has created one

vars == <<self, lifecycle, pending, nseq, last, other>>

(***************************************************************************)
(* Pointers. Function pointers and user data are opaque to the driver.     *)
(***************************************************************************)
NULL == "NULL"
\* The handle of the instance that the executing driver function has as its
\* parameter self: the address of the memory block held in the variable self.
InstancePtr == self.this

\* Number of sequences the user starts in one run.
MaxSeq == 2

(***************************************************************************)
(* sht3x_defs.h, sht3x.h: enumerations and flags                           *)
(***************************************************************************)
SHT3X_I2C_RESULT_CODE_OK == 0
SHT3X_I2C_RESULT_CODE_ADDRESS_NACK == 1
SHT3X_I2C_RESULT_CODE_BUS_ERROR == 2
I2CResultCodes ==
    {SHT3X_I2C_RESULT_CODE_OK, SHT3X_I2C_RESULT_CODE_ADDRESS_NACK, SHT3X_I2C_RESULT_CODE_BUS_ERROR}

SHT3X_RESULT_CODE_OK == 0
SHT3X_RESULT_CODE_DRIVER_ERR == 1
SHT3X_RESULT_CODE_INVALID_ARG == 2
SHT3X_RESULT_CODE_OUT_OF_MEMORY == 3
SHT3X_RESULT_CODE_IO_ERR == 4
SHT3X_RESULT_CODE_NO_DATA == 5
SHT3X_RESULT_CODE_CRC_MISMATCH == 6
SHT3X_RESULT_CODE_BUSY == 7

SHT3X_MEAS_REPEATABILITY_HIGH == 0
SHT3X_MEAS_REPEATABILITY_MEDIUM == 1
SHT3X_MEAS_REPEATABILITY_LOW == 2

SHT3X_CLOCK_STRETCHING_ENABLED == 0
SHT3X_CLOCK_STRETCHING_DISABLED == 1

SHT3X_MPS_0_5 == 0
SHT3X_MPS_1 == 1
SHT3X_MPS_2 == 2
SHT3X_MPS_4 == 3
SHT3X_MPS_10 == 4

SHT3X_FLAG_READ_TEMP == 1
SHT3X_FLAG_READ_HUM == 2
SHT3X_FLAG_VERIFY_CRC_TEMP == 4
SHT3X_FLAG_VERIFY_CRC_HUM == 8

SHT3X_I2C_READ_BUF_SIZE == 6

(***************************************************************************)
(* sht3x.c: private constants                                              *)
(***************************************************************************)
SHT3X_MIN_DELAY_BETWEEN_TWO_I2C_CMDS_MS == 1
SHT3X_SOFT_RESET_DELAY_MS == 2
SHT3X_MAX_MEASUREMENT_DURATION_HIGH_REPEATBILITY_MS == 16
SHT3X_MAX_MEASUREMENT_DURATION_MEDIUM_REPEATBILITY_MS == 7
SHT3X_MAX_MEASUREMENT_DURATION_LOW_REPEATBILITY_MS == 5

SHT3X_SEQUENCE_TYPE_READ_MEAS == 0
SHT3X_SEQUENCE_TYPE_SINGLE_SHOT_MEAS == 1
SHT3X_SEQUENCE_TYPE_READ_PERIODIC_MEAS == 2

(***************************************************************************)
(* Bit operations on uint8_t values.                                       *)
(***************************************************************************)
\* The bit of weight p (a power of two) of an unsigned value.
Bit(a, p) == (a \div p) % 2

RECURSIVE BitAndFrom(_, _, _)
BitAndFrom(a, b, p) ==
    IF p > a \/ p > b THEN 0 ELSE p * (Bit(a, p) * Bit(b, p)) + BitAndFrom(a, b, 2 * p)

\* a & b
BitAnd(a, b) == BitAndFrom(a, b, 1)

RECURSIVE BitXorFrom(_, _, _)
BitXorFrom(a, b, p) ==
    IF p > a /\ p > b THEN 0 ELSE p * ((Bit(a, p) + Bit(b, p)) % 2) + BitXorFrom(a, b, 2 * p)

\* a ^ b
BitXor(a, b) == BitXorFrom(a, b, 1)

\* (flags & f) as a C truth value
FlagSet(flags, f) == BitAnd(flags, f) # 0

(***************************************************************************)
(* sht3x.c: validation helpers                                             *)
(***************************************************************************)
is_valid_i2c_addr(i2c_addr) == (i2c_addr = 68) \/ (i2c_addr = 69)   \* 0x44, 0x45

\* cfg.cfg is the pointer; the other fields are those of the SHT3XInitConfig it
\* points to, and a null pointer has none
is_valid_cfg_without_start_timer_check(cfg) ==
    /\ cfg.cfg # NULL
    /\ cfg.get_instance_memory # NULL
    /\ cfg.i2c_write # NULL
    /\ cfg.i2c_read # NULL
    /\ is_valid_i2c_addr(cfg.i2c_addr)

is_valid_cfg(cfg) ==
    /\ cfg.cfg # NULL
    /\ cfg.get_instance_memory # NULL
    /\ cfg.i2c_write # NULL
    /\ cfg.i2c_read # NULL
    /\ cfg.start_timer # NULL
    /\ is_valid_i2c_addr(cfg.i2c_addr)

is_valid_repeatability_by_upper_bound(repeatability) ==
    repeatability <= SHT3X_MEAS_REPEATABILITY_LOW + 1

is_valid_repeatability(repeatability) ==
    \/ repeatability = SHT3X_MEAS_REPEATABILITY_HIGH
    \/ repeatability = SHT3X_MEAS_REPEATABILITY_MEDIUM
    \/ repeatability = SHT3X_MEAS_REPEATABILITY_LOW

is_valid_clock_stretching(clock_stretching) ==
    \/ clock_stretching = SHT3X_CLOCK_STRETCHING_ENABLED
    \/ clock_stretching = SHT3X_CLOCK_STRETCHING_DISABLED

is_valid_mps(mps) ==
    \/ mps = SHT3X_MPS_0_5
    \/ mps = SHT3X_MPS_1
    \/ mps = SHT3X_MPS_2
    \/ mps = SHT3X_MPS_4
    \/ mps = SHT3X_MPS_10

\* Fault injection for read_flags_valid: a humidity checksum may be verified without
\* reading humidity.
read_flags_valid_by_any_flag(flags) == flags # 0

read_flags_valid_without_hum_crc_rule(flags) ==
    LET flags_invalid ==
            \/ (~FlagSet(flags, SHT3X_FLAG_READ_TEMP) /\ ~FlagSet(flags, SHT3X_FLAG_READ_HUM))
            \/ (FlagSet(flags, SHT3X_FLAG_VERIFY_CRC_TEMP) /\ ~FlagSet(flags, SHT3X_FLAG_READ_TEMP))
    IN  ~flags_invalid

read_flags_valid(flags) ==
    LET flags_invalid ==
            \/ (~FlagSet(flags, SHT3X_FLAG_READ_TEMP) /\ ~FlagSet(flags, SHT3X_FLAG_READ_HUM))
            \/ (FlagSet(flags, SHT3X_FLAG_VERIFY_CRC_TEMP) /\ ~FlagSet(flags, SHT3X_FLAG_READ_TEMP))
            \/ (FlagSet(flags, SHT3X_FLAG_VERIFY_CRC_HUM) /\ ~FlagSet(flags, SHT3X_FLAG_READ_HUM))
    IN  ~flags_invalid

\* Fault injection for map_read_meas_flags_to_num_bytes_to_read: counts only the bytes
\* of the requested fields, as if a read could start at the humidity field.
map_read_meas_flags_to_num_bytes_of_requested_fields(flags) ==
    IF flags = 0 THEN 0
    ELSE IF FlagSet(flags, SHT3X_FLAG_VERIFY_CRC_TEMP) /\ ~FlagSet(flags, SHT3X_FLAG_READ_TEMP) THEN 0
    ELSE IF FlagSet(flags, SHT3X_FLAG_VERIFY_CRC_HUM) /\ ~FlagSet(flags, SHT3X_FLAG_READ_HUM) THEN 0
    ELSE (IF FlagSet(flags, SHT3X_FLAG_READ_TEMP) THEN 2 ELSE 0)
         + (IF FlagSet(flags, SHT3X_FLAG_VERIFY_CRC_TEMP) THEN 1 ELSE 0)
         + (IF FlagSet(flags, SHT3X_FLAG_READ_HUM) THEN 2 ELSE 0)
         + (IF FlagSet(flags, SHT3X_FLAG_VERIFY_CRC_HUM) THEN 1 ELSE 0)

map_read_meas_flags_to_num_bytes_to_read(flags) ==
    IF flags = 0 THEN 0
    ELSE IF FlagSet(flags, SHT3X_FLAG_VERIFY_CRC_TEMP) /\ ~FlagSet(flags, SHT3X_FLAG_READ_TEMP) THEN 0
    ELSE IF FlagSet(flags, SHT3X_FLAG_VERIFY_CRC_HUM) /\ ~FlagSet(flags, SHT3X_FLAG_READ_HUM) THEN 0
    ELSE IF FlagSet(flags, SHT3X_FLAG_READ_HUM) /\ FlagSet(flags, SHT3X_FLAG_VERIFY_CRC_HUM) THEN 6
    ELSE IF FlagSet(flags, SHT3X_FLAG_READ_HUM) THEN 5
    ELSE IF FlagSet(flags, SHT3X_FLAG_READ_TEMP) /\ FlagSet(flags, SHT3X_FLAG_VERIFY_CRC_TEMP) THEN 3
    ELSE IF FlagSet(flags, SHT3X_FLAG_READ_TEMP) THEN 2
    ELSE 0

(***************************************************************************)
(* sht3x.c: checksum and unit conversion. A byte array argument is the     *)
(* read buffer and the index of its first byte (1-based here, so C's       *)
(* &buf[3] is the pair (buf, 4)).                                          *)
(***************************************************************************)
two_big_endian_bytes_to_uint16(buf, at) == (buf[at] * 256) + buf[at + 1]

\* One pass of the inner loop, for every value of the uint8_t crc:
\* if (crc & 0x80) crc = (crc << 1) ^ 0x31; else crc = crc << 1;
crc8_shift ==
    [crc \in 0..255 |-> IF BitAnd(crc, 128) # 0
                            THEN BitXor((crc * 2) % 256, 49)
                            ELSE (crc * 2) % 256]

RECURSIVE crc8_bits(_, _)
crc8_bits(crc, bit) ==
    IF bit = 8 THEN crc ELSE crc8_bits(crc8_shift[crc], bit + 1)

\* Fault injection for sht3x_crc8: the register starts at 0.
sht3x_crc8_from_zero(buf, at) ==
    crc8_bits(BitXor(crc8_bits(BitXor(0, buf[at]), 0), buf[at + 1]), 0)

sht3x_crc8(buf, at) ==
    crc8_bits(BitXor(crc8_bits(BitXor(255, buf[at]), 0), buf[at + 1]), 0)

\* Fault injection for convert_raw_temp_meas_to_celsius: the offset of 45 is left out.
convert_raw_temp_meas_to_celsius_without_offset(buf, at) ==
    (17500 * two_big_endian_bytes_to_uint16(buf, at)) \div 65535

\* Hundredths of a degree Celsius, the float rounded down. The value of
\* SHT3X_TEMPERATURE_CONVERSION_MAGIC, 0.002670328831921, is 175 / 65535 (the comment
\* above it in sht3x.c says 315 / 65535).
convert_raw_temp_meas_to_celsius(buf, at) ==
    ((17500 * two_big_endian_bytes_to_uint16(buf, at)) \div 65535) - 4500

\* Hundredths of a percent RH: 100 * raw / 65535, the float rounded down.
convert_raw_humidity_meas_to_rh(buf, at) ==
    (10000 * two_big_endian_bytes_to_uint16(buf, at)) \div 65535

(***************************************************************************)
(* sht3x.c: command and delay catalog. A lookup yields <<rc, value>>.      *)
(***************************************************************************)
get_single_shot_meas_timer_period(repeatability, clock_stretching) ==
    IF clock_stretching = SHT3X_CLOCK_STRETCHING_ENABLED
        THEN <<SHT3X_RESULT_CODE_OK, SHT3X_MIN_DELAY_BETWEEN_TWO_I2C_CMDS_MS>>
    ELSE IF clock_stretching = SHT3X_CLOCK_STRETCHING_DISABLED
        THEN IF repeatability = SHT3X_MEAS_REPEATABILITY_HIGH
                 THEN <<SHT3X_RESULT_CODE_OK, SHT3X_MAX_MEASUREMENT_DURATION_HIGH_REPEATBILITY_MS>>
             ELSE IF repeatability = SHT3X_MEAS_REPEATABILITY_MEDIUM
                 THEN <<SHT3X_RESULT_CODE_OK, SHT3X_MAX_MEASUREMENT_DURATION_MEDIUM_REPEATBILITY_MS>>
             ELSE IF repeatability = SHT3X_MEAS_REPEATABILITY_LOW
                 THEN <<SHT3X_RESULT_CODE_OK, SHT3X_MAX_MEASUREMENT_DURATION_LOW_REPEATBILITY_MS>>
             ELSE <<SHT3X_RESULT_CODE_INVALID_ARG, 0>>
    ELSE <<SHT3X_RESULT_CODE_INVALID_ARG, 0>>

\* The second command byte for a repeatability, from the three bytes of one table row.
RepeatabilityByte(repeatability, high, medium, low) ==
    IF repeatability = SHT3X_MEAS_REPEATABILITY_HIGH THEN <<high>>
    ELSE IF repeatability = SHT3X_MEAS_REPEATABILITY_MEDIUM THEN <<medium>>
    ELSE IF repeatability = SHT3X_MEAS_REPEATABILITY_LOW THEN <<low>>
    ELSE <<>>

CmdLookup(msb, lsb) ==
    IF lsb = <<>> THEN <<SHT3X_RESULT_CODE_INVALID_ARG, <<>>>>
    ELSE <<SHT3X_RESULT_CODE_OK, <<msb, lsb[1]>>>>

\* Fault injection for get_start_periodic_meas_cmd: the row of 4 measurements per second
\* has the bytes for medium and low repeatability exchanged.
get_start_periodic_meas_cmd_row_4_exchanged(repeatability, mps) ==
    IF mps = SHT3X_MPS_0_5 THEN CmdLookup(32, RepeatabilityByte(repeatability, 50, 36, 47))
    ELSE IF mps = SHT3X_MPS_1 THEN CmdLookup(33, RepeatabilityByte(repeatability, 48, 38, 45))
    ELSE IF mps = SHT3X_MPS_2 THEN CmdLookup(34, RepeatabilityByte(repeatability, 54, 32, 43))
    ELSE IF mps = SHT3X_MPS_4 THEN CmdLookup(35, RepeatabilityByte(repeatability, 52, 41, 34))
    ELSE IF mps = SHT3X_MPS_10 THEN CmdLookup(39, RepeatabilityByte(repeatability, 55, 33, 42))
    ELSE <<SHT3X_RESULT_CODE_INVALID_ARG, <<>>>>

get_start_periodic_meas_cmd(repeatability, mps) ==
    IF mps = SHT3X_MPS_0_5 THEN CmdLookup(32, RepeatabilityByte(repeatability, 50, 36, 47))
    ELSE IF mps = SHT3X_MPS_1 THEN CmdLookup(33, RepeatabilityByte(repeatability, 48, 38, 45))
    ELSE IF mps = SHT3X_MPS_2 THEN CmdLookup(34, RepeatabilityByte(repeatability, 54, 32, 43))
    ELSE IF mps = SHT3X_MPS_4 THEN CmdLookup(35, RepeatabilityByte(repeatability, 52, 34, 41))
    ELSE IF mps = SHT3X_MPS_10 THEN CmdLookup(39, RepeatabilityByte(repeatability, 55, 33, 42))
    ELSE <<SHT3X_RESULT_CODE_INVALID_ARG, <<>>>>

\* Fault injection for get_single_shot_meas_command_code: the first bytes of the two
\* clock stretching settings are exchanged.
get_single_shot_meas_command_code_msb_exchanged(repeatability, clock_stretching) ==
    IF clock_stretching = SHT3X_CLOCK_STRETCHING_DISABLED
        THEN CmdLookup(44, RepeatabilityByte(repeatability, 0, 11, 22))
    ELSE IF clock_stretching = SHT3X_CLOCK_STRETCHING_ENABLED
        THEN CmdLookup(36, RepeatabilityByte(repeatability, 6, 13, 16))
    ELSE <<SHT3X_RESULT_CODE_INVALID_ARG, <<>>>>

get_single_shot_meas_command_code(repeatability, clock_stretching) ==
    IF clock_stretching = SHT3X_CLOCK_STRETCHING_DISABLED
        THEN CmdLookup(36, RepeatabilityByte(repeatability, 0, 11, 22))
    ELSE IF clock_stretching = SHT3X_CLOCK_STRETCHING_ENABLED
        THEN CmdLookup(44, RepeatabilityByte(repeatability, 6, 13, 16))
    ELSE <<SHT3X_RESULT_CODE_INVALID_ARG, <<>>>>

SHT3X_ART_CMD == <<43, 50>>                       \* 0x2B 0x32
SHT3X_STOP_PERIODIC_MEAS_CMD == <<48, 147>>       \* 0x30 0x93
SHT3X_SOFT_RESET_CMD == <<48, 162>>               \* 0x30 0xA2
SHT3X_ENABLE_HEATER_CMD == <<48, 109>>            \* 0x30 0x6D
SHT3X_DISABLE_HEATER_CMD == <<48, 102>>           \* 0x30 0x66
SHT3X_CLEAR_STATUS_REGISTER_CMD == <<48, 65>>     \* 0x30 0x41
SHT3X_FETCH_PERIODIC_MEAS_DATA_CMD == <<224, 0>>  \* 0xE0 0x00
SHT3X_READ_STATUS_REG_CMD == <<243, 45>>          \* 0xF3 0x2D

(***************************************************************************)
(* Invocations a driver function makes, in the order it makes them: the    *)
(* three hooks of the init config and the user's completion callback.      *)
(* A hook invocation carries the driver's continuation in cb.              *)
(***************************************************************************)
I2CWriteCall(data, length, i2c_addr, cb) ==
    [fn |-> "i2c_write", data |-> data, length |-> length, i2c_addr |-> i2c_addr, cb |-> cb,
     cb_user_data |-> InstancePtr]

I2CReadCall_for_other_instance(length, i2c_addr, cb) ==
    [fn |-> "i2c_read", length |-> length, i2c_addr |-> i2c_addr, cb |-> cb,
     cb_user_data |-> other.this]

I2CReadCall(length, i2c_addr, cb) ==
    [fn |-> "i2c_read", length |-> length, i2c_addr |-> i2c_addr, cb |-> cb,
     cb_user_data |-> InstancePtr]

StartTimerCall(duration_ms, cb) ==
    [fn |-> "start_timer", duration_ms |-> duration_ms, cb |-> cb, cb_user_data |-> InstancePtr]

\* sig is the function pointer type the stored (void *) was cast to; meas is <<>> for NULL.
UserCbCall(cb, sig, result_code, meas, user_data) ==
    [fn |-> "user_cb", cb |-> cb, sig |-> sig, result_code |-> result_code, meas |-> meas,
     user_data |-> user_data]

HookNames == {"i2c_write", "i2c_read", "start_timer"}

(***************************************************************************)
(* sht3x.c: thin wrappers around the hooks                                 *)
(***************************************************************************)
send_fetch_data_cmd_to_other_address(mem, cb) ==
    I2CWriteCall(SHT3X_FETCH_PERIODIC_MEAS_DATA_CMD, 2, mem.i2c_addr + 1, cb)

send_fetch_data_cmd(mem, cb) ==
    I2CWriteCall(SHT3X_FETCH_PERIODIC_MEAS_DATA_CMD, 2, mem.i2c_addr, cb)

send_read_measurement_cmd(mem, length, cb) == I2CReadCall(length, mem.i2c_addr, cb)

send_read_status_reg_cmd(mem, cb) == I2CWriteCall(SHT3X_READ_STATUS_REG_CMD, 2, mem.i2c_addr, cb)

\* Fault injection for send_soft_reset_cmd: the least significant byte goes first.
send_soft_reset_cmd_lsb_first(mem, cb) ==
    I2CWriteCall(<<SHT3X_SOFT_RESET_CMD[2], SHT3X_SOFT_RESET_CMD[1]>>, 2, mem.i2c_addr, cb)

send_soft_reset_cmd(mem, cb) == I2CWriteCall(SHT3X_SOFT_RESET_CMD, 2, mem.i2c_addr, cb)

(***************************************************************************)
(* sht3x.c: invoking the stored completion callback                        *)
(***************************************************************************)
execute_meas_complete_cb(mem, rc, meas) ==
    IF mem.sequence_cb # NULL
        THEN <<UserCbCall(mem.sequence_cb, "SHT3XMeasCompleteCb", rc, meas, mem.sequence_cb_user_data)>>
        ELSE <<>>

execute_complete_cb(mem, rc) ==
    IF mem.sequence_cb # NULL
        THEN <<UserCbCall(mem.sequence_cb, "SHT3XCompleteCb", rc, <<>>, mem.sequence_cb_user_data)>>
        ELSE <<>>

(***************************************************************************)
(* sht3x.c: completion handlers. Each yields the instance memory it leaves *)
(* and the invocations it made. mem is *self on entry.                     *)
(***************************************************************************)
Did(mem, calls) == [mem |-> mem, calls |-> calls]

generic_i2c_complete_cb(mem, result_code) ==
    LET rc == IF result_code = SHT3X_I2C_RESULT_CODE_OK
                  THEN SHT3X_RESULT_CODE_OK ELSE SHT3X_RESULT_CODE_IO_ERR
    IN  Did(mem, execute_complete_cb(mem, rc))

meas_i2c_complete_cb(mem, result_code) ==
    LET return_no_data_if_address_nack ==
            \/ mem.sequence_type = SHT3X_SEQUENCE_TYPE_READ_MEAS
            \/ mem.sequence_type = SHT3X_SEQUENCE_TYPE_READ_PERIODIC_MEAS
        buf == mem.i2c_read_buf
        hum_crc_bad ==
            /\ FlagSet(mem.sequence_flags, SHT3X_FLAG_VERIFY_CRC_HUM)
            /\ sht3x_crc8(buf, 4) # buf[6]
        temp_crc_bad ==
            /\ FlagSet(mem.sequence_flags, SHT3X_FLAG_VERIFY_CRC_TEMP)
            /\ sht3x_crc8(buf, 1) # buf[3]
        meas == [temperature |-> IF FlagSet(mem.sequence_flags, SHT3X_FLAG_READ_TEMP)
                                     THEN convert_raw_temp_meas_to_celsius(buf, 1) ELSE 0,
                 humidity |-> IF FlagSet(mem.sequence_flags, SHT3X_FLAG_READ_HUM)
                                  THEN convert_raw_humidity_meas_to_rh(buf, 4) ELSE 0]
    IN  IF result_code = SHT3X_I2C_RESULT_CODE_ADDRESS_NACK /\ return_no_data_if_address_nack
            THEN Did(mem, execute_meas_complete_cb(mem, SHT3X_RESULT_CODE_NO_DATA, <<>>))
        ELSE IF result_code # SHT3X_I2C_RESULT_CODE_OK
            THEN Did(mem, execute_meas_complete_cb(mem, SHT3X_RESULT_CODE_IO_ERR, <<>>))
        ELSE IF hum_crc_bad
            THEN Did(mem, execute_meas_complete_cb(mem, SHT3X_RESULT_CODE_CRC_MISMATCH, <<>>))
        ELSE IF temp_crc_bad
            THEN Did(mem, execute_meas_complete_cb(mem, SHT3X_RESULT_CODE_CRC_MISMATCH, <<>>))
        ELSE Did(mem, execute_meas_complete_cb(mem, SHT3X_RESULT_CODE_OK, <<meas>>))

\* Fault injection for read_single_shot_measurement_part_3: the whole frame is read.
read_single_shot_measurement_part_3_whole_frame(mem) ==
    Did(mem, <<send_read_measurement_cmd(mem, SHT3X_I2C_READ_BUF_SIZE, "meas_i2c_complete_cb")>>)

\* No return follows the DRIVER_ERR callback in the source: the read is requested in any case.
read_single_shot_measurement_part_3(mem) ==
    LET length == map_read_meas_flags_to_num_bytes_to_read(mem.sequence_flags)
    IN  Did(mem,
            (IF length = 0
                 THEN execute_meas_complete_cb(mem, SHT3X_RESULT_CODE_DRIVER_ERR, <<>>)
                 ELSE <<>>)
            \o <<send_read_measurement_cmd(mem, length, "meas_i2c_complete_cb")>>)

read_single_shot_measurement_part_2(mem, result_code) ==
    LET period == get_single_shot_meas_timer_period(mem.repeatability, mem.clock_stretching)
    IN  IF result_code # SHT3X_I2C_RESULT_CODE_OK
            THEN Did(mem, execute_meas_complete_cb(mem, SHT3X_RESULT_CODE_IO_ERR, <<>>))
        ELSE IF period[1] # SHT3X_RESULT_CODE_OK
            THEN Did(mem, execute_meas_complete_cb(mem, SHT3X_RESULT_CODE_DRIVER_ERR, <<>>))
        ELSE Did(mem, <<StartTimerCall(period[2], "read_single_shot_measurement_part_3")>>)

read_periodic_measurement_part_3(mem) ==
    LET length == map_read_meas_flags_to_num_bytes_to_read(mem.sequence_flags)
    IN  Did(mem,
            (IF length = 0
                 THEN execute_meas_complete_cb(mem, SHT3X_RESULT_CODE_DRIVER_ERR, <<>>)
                 ELSE <<>>)
            \o <<send_read_measurement_cmd(mem, length, "meas_i2c_complete_cb")>>)

\* Fault injection for read_periodic_measurement_part_2: the read is requested from the
\* write's completion handler, without the timer in between.
read_periodic_measurement_part_2_without_timer(mem, result_code) ==
    IF result_code # SHT3X_I2C_RESULT_CODE_OK
        THEN Did(mem, execute_meas_complete_cb(mem, SHT3X_RESULT_CODE_IO_ERR, <<>>))
        ELSE read_periodic_measurement_part_3(mem)

read_periodic_measurement_part_2(mem, result_code) ==
    IF result_code # SHT3X_I2C_RESULT_CODE_OK
        THEN Did(mem, execute_meas_complete_cb(mem, SHT3X_RESULT_CODE_IO_ERR, <<>>))
        ELSE Did(mem, <<StartTimerCall(SHT3X_MIN_DELAY_BETWEEN_TWO_I2C_CMDS_MS,
                                       "read_periodic_measurement_part_3")>>)

soft_reset_with_delay_part_3(mem) == Did(mem, execute_complete_cb(mem, SHT3X_RESULT_CODE_OK))

soft_reset_with_delay_part_2_resending(mem, result_code) ==
    IF result_code # SHT3X_I2C_RESULT_CODE_OK
        THEN Did(mem, <<send_soft_reset_cmd(mem, "soft_reset_with_delay_part_2")>>)
        ELSE Did(mem, <<StartTimerCall(SHT3X_SOFT_RESET_DELAY_MS, "soft_reset_with_delay_part_3")>>)

soft_reset_with_delay_part_2(mem, result_code) ==
    IF result_code # SHT3X_I2C_RESULT_CODE_OK
        THEN Did(mem, execute_complete_cb(mem, SHT3X_RESULT_CODE_IO_ERR))
        ELSE Did(mem, <<StartTimerCall(SHT3X_SOFT_RESET_DELAY_MS, "soft_reset_with_delay_part_3")>>)

(***************************************************************************)
(* sht3x.c: public functions. self_p is the SHT3X handle passed by the     *)
(* caller (NULL or the instance), self the memory it points to. Each       *)
(* yields its return value (<<>> for a function returning void), the       *)
(* instance memory it leaves and the invocations it made.                  *)
(***************************************************************************)
Returned(rc) == [ret |-> <<rc>>, mem |-> self, calls |-> <<>>]

Started(mem, calls) == [ret |-> <<SHT3X_RESULT_CODE_OK>>, mem |-> mem, calls |-> calls]

\* self->sequence_cb = (void *)cb; self->sequence_cb_user_data = user_data;
StoreCb(mem, cb, user_data) ==
    [mem EXCEPT !.sequence_cb = cb, !.sequence_cb_user_data = user_data]

\* The functions that store the callback and write one fixed command.
WriteCmd(self_p, cmd, cb, user_data) ==
    IF self_p = NULL THEN Returned(SHT3X_RESULT_CODE_INVALID_ARG)
    ELSE LET mem == StoreCb(self, cb, user_data)
         IN  Started(mem, <<I2CWriteCall(cmd, 2, mem.i2c_addr, "generic_i2c_complete_cb")>>)

sht3x_send_single_shot_measurement_cmd(self_p, repeatability, clock_stretching, cb, user_data) ==
    LET code == get_single_shot_meas_command_code(repeatability, clock_stretching)
    IN  IF \/ self_p = NULL
           \/ ~is_valid_repeatability(repeatability)
           \/ ~is_valid_clock_stretching(clock_stretching)
            THEN Returned(SHT3X_RESULT_CODE_INVALID_ARG)
        ELSE IF code[1] # SHT3X_RESULT_CODE_OK THEN Returned(SHT3X_RESULT_CODE_DRIVER_ERR)
        ELSE WriteCmd(self_p, code[2], cb, user_data)

sht3x_read_measurement(self_p, flags, cb, user_data) ==
    IF self_p = NULL \/ ~read_flags_valid(flags) THEN Returned(SHT3X_RESULT_CODE_INVALID_ARG)
    ELSE LET mem == [StoreCb(self, cb, user_data) EXCEPT
                         !.sequence_type = SHT3X_SEQUENCE_TYPE_READ_MEAS,
                         !.sequence_flags = flags]
             length == map_read_meas_flags_to_num_bytes_to_read(mem.sequence_flags)
         IN  IF length = 0
                 THEN [ret |-> <<SHT3X_RESULT_CODE_DRIVER_ERR>>, mem |-> mem, calls |-> <<>>]
                 ELSE Started(mem, <<send_read_measurement_cmd(mem, length, "meas_i2c_complete_cb")>>)

sht3x_start_periodic_measurement(self_p, repeatability, mps, cb, user_data) ==
    LET code == get_start_periodic_meas_cmd(repeatability, mps)
    IN  IF self_p = NULL \/ ~is_valid_repeatability(repeatability) \/ ~is_valid_mps(mps)
            THEN Returned(SHT3X_RESULT_CODE_INVALID_ARG)
        ELSE IF code[1] # SHT3X_RESULT_CODE_OK THEN Returned(SHT3X_RESULT_CODE_DRIVER_ERR)
        ELSE WriteCmd(self_p, code[2], cb, user_data)

sht3x_start_periodic_measurement_art(self_p, cb, user_data) ==
    WriteCmd(self_p, SHT3X_ART_CMD, cb, user_data)

sht3x_fetch_periodic_measurement_data(self_p, cb, user_data) ==
    IF self_p = NULL THEN Returned(SHT3X_RESULT_CODE_INVALID_ARG)
    ELSE LET mem == StoreCb(self, cb, user_data)
         IN  Started(mem, <<send_fetch_data_cmd(mem, "generic_i2c_complete_cb")>>)

sht3x_stop_periodic_measurement(self_p, cb, user_data) ==
    WriteCmd(self_p, SHT3X_STOP_PERIODIC_MEAS_CMD, cb, user_data)

sht3x_soft_reset(self_p, cb, user_data) ==
    IF self_p = NULL THEN Returned(SHT3X_RESULT_CODE_INVALID_ARG)
    ELSE LET mem == StoreCb(self, cb, user_data)
         IN  Started(mem, <<send_soft_reset_cmd(mem, "generic_i2c_complete_cb")>>)

sht3x_enable_heater(self_p, cb, user_data) ==
    WriteCmd(self_p, SHT3X_ENABLE_HEATER_CMD, cb, user_data)

sht3x_disable_heater(self_p, cb, user_data) ==
    WriteCmd(self_p, SHT3X_DISABLE_HEATER_CMD, cb, user_data)

sht3x_send_read_status_register_cmd(self_p, cb, user_data) ==
    IF self_p = NULL THEN Returned(SHT3X_RESULT_CODE_INVALID_ARG)
    ELSE LET mem == StoreCb(self, cb, user_data)
         IN  Started(mem, <<send_read_status_reg_cmd(mem, "generic_i2c_complete_cb")>>)

sht3x_clear_status_register(self_p, cb, user_data) ==
    WriteCmd(self_p, SHT3X_CLEAR_STATUS_REGISTER_CMD, cb, user_data)

sht3x_read_single_shot_measurement(self_p, repeatability, clock_stretching, flags, cb, user_data) ==
    LET code == get_single_shot_meas_command_code(repeatability, clock_stretching)
    IN  IF \/ self_p = NULL
           \/ ~is_valid_repeatability(repeatability)
           \/ ~is_valid_clock_stretching(clock_stretching)
           \/ ~read_flags_valid(flags)
            THEN Returned(SHT3X_RESULT_CODE_INVALID_ARG)
        ELSE IF code[1] # SHT3X_RESULT_CODE_OK THEN Returned(SHT3X_RESULT_CODE_DRIVER_ERR)
        ELSE LET mem == [StoreCb(self, cb, user_data) EXCEPT
                             !.sequence_type = SHT3X_SEQUENCE_TYPE_SINGLE_SHOT_MEAS,
                             !.repeatability = repeatability,
                             !.clock_stretching = clock_stretching,
                             !.sequence_flags = flags]
             IN  Started(mem, <<I2CWriteCall(code[2], 2, mem.i2c_addr,
                                             "read_single_shot_measurement_part_2")>>)

\* Fault injection for sht3x_read_periodic_measurement: the sequence type of a single shot.
sht3x_read_periodic_measurement_as_single_shot(self_p, flags, cb, user_data) ==
    IF self_p = NULL \/ ~read_flags_valid(flags) THEN Returned(SHT3X_RESULT_CODE_INVALID_ARG)
    ELSE LET mem == [StoreCb(self, cb, user_data) EXCEPT
                         !.sequence_type = SHT3X_SEQUENCE_TYPE_SINGLE_SHOT_MEAS,
                         !.sequence_flags = flags]
         IN  Started(mem, <<send_fetch_data_cmd(mem, "read_periodic_measurement_part_2")>>)

sht3x_read_periodic_measurement(self_p, flags, cb, user_data) ==
    IF self_p = NULL \/ ~read_flags_valid(flags) THEN Returned(SHT3X_RESULT_CODE_INVALID_ARG)
    ELSE LET mem == [StoreCb(self, cb, user_data) EXCEPT
                         !.sequence_type = SHT3X_SEQUENCE_TYPE_READ_PERIODIC_MEAS,
                         !.sequence_flags = flags]
         IN  Started(mem, <<send_fetch_data_cmd(mem, "read_periodic_measurement_part_2")>>)

sht3x_soft_reset_with_delay(self_p, cb, user_data) ==
    IF self_p = NULL THEN Returned(SHT3X_RESULT_CODE_INVALID_ARG)
    ELSE LET mem == StoreCb(self, cb, user_data)
         IN  Started(mem, <<send_soft_reset_cmd(mem, "soft_reset_with_delay_part_2")>>)

\* The call of the factory hook of the configuration.
GetInstanceMemoryCall(cfg, user_data) ==
    [fn |-> "get_instance_memory", cb |-> cfg.get_instance_memory, user_data |-> user_data]

\* instance is the out-pointer, instance_memory is what the factory hook returns
\* when it is invoked, and self is the content of that memory. The field
\* instance of the result is what the out-pointer points to afterwards.
sht3x_create_without_start_timer(instance, cfg, instance_memory) ==
    IF instance = NULL \/ ~is_valid_cfg(cfg)
        THEN [ret |-> <<SHT3X_RESULT_CODE_INVALID_ARG>>, mem |-> self, calls |-> <<>>,
              instance |-> "unset"]
    ELSE IF instance_memory = NULL
        THEN [ret |-> <<SHT3X_RESULT_CODE_OUT_OF_MEMORY>>, mem |-> self,
              calls |-> <<GetInstanceMemoryCall(cfg, cfg.get_instance_memory_user_data)>>,
              instance |-> NULL]
    ELSE [ret |-> <<SHT3X_RESULT_CODE_OK>>,
          mem |-> [self EXCEPT !.i2c_write = cfg.i2c_write,
                               !.i2c_read = cfg.i2c_read,
                               !.i2c_addr = cfg.i2c_addr],
          calls |-> <<GetInstanceMemoryCall(cfg, cfg.get_instance_memory_user_data)>>,
          instance |-> instance_memory]

sht3x_create_with_null_user_data(instance, cfg, instance_memory) ==
    IF instance = NULL \/ ~is_valid_cfg(cfg)
        THEN [ret |-> <<SHT3X_RESULT_CODE_INVALID_ARG>>, mem |-> self, calls |-> <<>>,
              instance |-> "unset"]
    ELSE IF instance_memory = NULL
        THEN [ret |-> <<SHT3X_RESULT_CODE_OUT_OF_MEMORY>>, mem |-> self,
              calls |-> <<GetInstanceMemoryCall(cfg, 0)>>,
              instance |-> NULL]
    ELSE [ret |-> <<SHT3X_RESULT_CODE_OK>>,
          mem |-> [self EXCEPT !.i2c_write = cfg.i2c_write,
                               !.i2c_read = cfg.i2c_read,
                               !.start_timer = cfg.start_timer,
                               !.i2c_addr = cfg.i2c_addr],
          calls |-> <<GetInstanceMemoryCall(cfg, 0)>>,
          instance |-> instance_memory]

sht3x_create(instance, cfg, instance_memory) ==
    IF instance = NULL \/ ~is_valid_cfg(cfg)
        THEN [ret |-> <<SHT3X_RESULT_CODE_INVALID_ARG>>, mem |-> self, calls |-> <<>>,
              instance |-> "unset"]
    ELSE IF instance_memory = NULL
        THEN [ret |-> <<SHT3X_RESULT_CODE_OUT_OF_MEMORY>>, mem |-> self,
              calls |-> <<GetInstanceMemoryCall(cfg, cfg.get_instance_memory_user_data)>>,
              instance |-> NULL]
    ELSE [ret |-> <<SHT3X_RESULT_CODE_OK>>,
          mem |-> [self EXCEPT !.i2c_write = cfg.i2c_write,
                               !.i2c_read = cfg.i2c_read,
                               !.start_timer = cfg.start_timer,
                               !.i2c_addr = cfg.i2c_addr],
          calls |-> <<GetInstanceMemoryCall(cfg, cfg.get_instance_memory_user_data)>>,
          instance |-> instance_memory]

\* Defined void in sht3x.c: no status is returned, and self is not examined.
sht3x_destroy(self_p, free_instance_memory, user_data) ==
    [ret |-> <<>>,
     mem |-> self,
     calls |-> IF free_instance_memory # NULL
                   THEN <<[fn |-> "free_instance_memory", cb |-> free_instance_memory,
                           instance_memory |-> self_p, user_data |-> user_data]>>
                   ELSE <<>>]

(***************************************************************************)
(* sht3x_read_status_register is declared in sht3x.h and exercised by      *)
(* test/sht3x.cpp, but sht3x.c does not define it. It is modelled from     *)
(* the specification (section 4.3): the busy entry guard, the write of the *)
(* read-status-register command, a 1 ms timer, a read of 2 bytes (3 with   *)
(* checksum verification), and delivery through the status callback. The   *)
(* fields busy and verify_crc of the instance exist for it alone: no       *)
(* function of sht3x.c reads or writes them.                               *)
(***************************************************************************)
execute_read_status_reg_complete_cb(mem, rc, reg_val) ==
    IF mem.sequence_cb # NULL
        THEN <<[fn |-> "user_cb", cb |-> mem.sequence_cb, sig |-> "SHT3XReadStatusRegCompleteCb",
                result_code |-> rc, reg_val |-> reg_val, user_data |-> mem.sequence_cb_user_data]>>
        ELSE <<>>

\* Fault injection for read_status_reg_i2c_complete_cb: an address NACK is NO_DATA.
read_status_reg_i2c_complete_cb_nack_as_no_data(mem, result_code) ==
    LET idle == [mem EXCEPT !.busy = FALSE]
        buf == mem.i2c_read_buf
    IN  IF result_code = SHT3X_I2C_RESULT_CODE_ADDRESS_NACK
            THEN Did(idle, execute_read_status_reg_complete_cb(mem, SHT3X_RESULT_CODE_NO_DATA, 0))
        ELSE IF result_code # SHT3X_I2C_RESULT_CODE_OK
            THEN Did(idle, execute_read_status_reg_complete_cb(mem, SHT3X_RESULT_CODE_IO_ERR, 0))
        ELSE IF mem.verify_crc /\ sht3x_crc8(buf, 1) # buf[3]
            THEN Did(idle, execute_read_status_reg_complete_cb(mem, SHT3X_RESULT_CODE_CRC_MISMATCH, 0))
        ELSE Did(idle, execute_read_status_reg_complete_cb(mem, SHT3X_RESULT_CODE_OK,
                                                           two_big_endian_bytes_to_uint16(buf, 1)))

read_status_reg_i2c_complete_cb(mem, result_code) ==
    LET idle == [mem EXCEPT !.busy = FALSE]
        buf == mem.i2c_read_buf
    IN  IF result_code # SHT3X_I2C_RESULT_CODE_OK
            THEN Did(idle, execute_read_status_reg_complete_cb(mem, SHT3X_RESULT_CODE_IO_ERR, 0))
        ELSE IF mem.verify_crc /\ sht3x_crc8(buf, 1) # buf[3]
            THEN Did(idle, execute_read_status_reg_complete_cb(mem, SHT3X_RESULT_CODE_CRC_MISMATCH, 0))
        ELSE Did(idle, execute_read_status_reg_complete_cb(mem, SHT3X_RESULT_CODE_OK,
                                                           two_big_endian_bytes_to_uint16(buf, 1)))

\* Fault injection for read_status_register_part_3: the checksum byte is always read.
read_status_register_part_3_with_crc_byte(mem) ==
    Did(mem, <<send_read_measurement_cmd(mem, 3, "read_status_reg_i2c_complete_cb")>>)

read_status_register_part_3(mem) ==
    Did(mem, <<send_read_measurement_cmd(mem, IF mem.verify_crc THEN 3 ELSE 2,
                                         "read_status_reg_i2c_complete_cb")>>)

read_status_register_part_2(mem, result_code) ==
    IF result_code # SHT3X_I2C_RESULT_CODE_OK
        THEN Did([mem EXCEPT !.busy = FALSE],
                 execute_read_status_reg_complete_cb(mem, SHT3X_RESULT_CODE_IO_ERR, 0))
        ELSE Did(mem, <<StartTimerCall(SHT3X_MIN_DELAY_BETWEEN_TWO_I2C_CMDS_MS,
                                       "read_status_register_part_3")>>)

sht3x_read_status_register(self_p, verify_crc, cb, user_data) ==
    IF self_p = NULL THEN Returned(SHT3X_RESULT_CODE_INVALID_ARG)
    ELSE IF self.busy THEN Returned(SHT3X_RESULT_CODE_BUSY)
    ELSE LET mem == [StoreCb(self, cb, user_data) EXCEPT !.busy = TRUE, !.verify_crc = verify_crc]
         IN  Started(mem, <<send_read_status_reg_cmd(mem, "read_status_register_part_2")>>)

(***************************************************************************)
(* Dispatch of a completion to the continuation the driver registered.     *)
(***************************************************************************)
I2CTransactionCompleteCb(cb, mem, result_code) ==
    CASE cb = "generic_i2c_complete_cb" -> generic_i2c_complete_cb(mem, result_code)
      [] cb = "meas_i2c_complete_cb" -> meas_i2c_complete_cb(mem, result_code)
      [] cb = "read_single_shot_measurement_part_2" -> read_single_shot_measurement_part_2(mem, result_code)
      [] cb = "read_periodic_measurement_part_2" -> read_periodic_measurement_part_2(mem, result_code)
      [] cb = "soft_reset_with_delay_part_2" -> soft_reset_with_delay_part_2(mem, result_code)
      [] cb = "read_status_register_part_2" -> read_status_register_part_2(mem, result_code)
      [] cb = "read_status_reg_i2c_complete_cb" -> read_status_reg_i2c_complete_cb(mem, result_code)

TimerExpiredCb(cb, mem) ==
    CASE cb = "read_single_shot_measurement_part_3" -> read_single_shot_measurement_part_3(mem)
      [] cb = "read_periodic_measurement_part_3" -> read_periodic_measurement_part_3(mem)
      [] cb = "soft_reset_with_delay_part_3" -> soft_reset_with_delay_part_3(mem)
      [] cb = "read_status_register_part_3" -> read_status_register_part_3(mem)

(***************************************************************************)
(* The caller's side: argument values, bus data, and the bookkeeping of    *)
(* requests. Each request remembers the sequence it belongs to: the public *)
(* function that started it, the callback, user data and options given to  *)
(* that function, the hooks the sequence has requested so far, and the     *)
(* duration of the sequence's last expired timer.                          *)
(***************************************************************************)
\* The address the instance was created with: 0x44, ADDR pin low.
I2cAddrs == {68}
MeasCompleteCbs == {NULL, "sht3x_meas_complete_cb"}
CompleteCbs == {NULL, "sht3x_complete_cb"}
ReadStatusRegCompleteCbs == {NULL, "sht3x_read_status_reg_complete_cb"}
FreeInstanceMemoryFns == {NULL, "mock_sht3x_free_instance_memory"}
\* The user passes a user data of its own with every sequence it starts: the
\* address n for the n-th (0 is the null pointer).
NextUserData == nseq + 1
\* <<repeatability, clock stretching>>: the longest and the shortest measurement delay
SingleShotOptions == {<<SHT3X_MEAS_REPEATABILITY_HIGH, SHT3X_CLOCK_STRETCHING_DISABLED>>,
                      <<SHT3X_MEAS_REPEATABILITY_LOW, SHT3X_CLOCK_STRETCHING_ENABLED>>}
\* <<repeatability, measurements per second>>
PeriodicOptions == {<<SHT3X_MEAS_REPEATABILITY_HIGH, SHT3X_MPS_2>>,
                    <<SHT3X_MEAS_REPEATABILITY_MEDIUM, SHT3X_MPS_10>>}
\* temperature only; temperature and humidity with both checksums
ReadFlags == {SHT3X_FLAG_READ_TEMP,
              SHT3X_FLAG_READ_TEMP + SHT3X_FLAG_READ_HUM
                  + SHT3X_FLAG_VERIFY_CRC_TEMP + SHT3X_FLAG_VERIFY_CRC_HUM}

\* What the sensor answers to a read: a frame with both checksums right (a captured
\* measurement, test/sht3x.cpp) and the same frame with the temperature checksum wrong.
GoodFrame == <<98, 96, 182, 114, 179, 143>>   \* 0x62 0x60 0xB6 0x72 0xB3 0x8F
BadFrame == <<98, 96, 136, 114, 179, 143>>    \* 0x62 0x60 0x88 0x72 0xB3 0x8F
BusFrames == {GoodFrame, BadFrame}

\* Contents of the read buffer in the memory the factory hook returns.
InitialReadBufs == {<<0, 0, 0, 0, 0, 0>>}

NoSeq == [op |-> "none", cb |-> NULL, user_data |-> 0, steps |-> <<>>, delay |-> 0]

NewSeq(op, cb, user_data) ==
    [op |-> op, cb |-> cb, user_data |-> user_data, steps |-> <<>>, delay |-> 0]

IsHookCall(c) == c.fn \in HookNames

Request(c, seq) ==
    [fn |-> c.fn,
     cb |-> c.cb,
     cb_user_data |-> c.cb_user_data,
     arg |-> IF c.fn = "start_timer" THEN c.duration_ms ELSE c.length,
     seq |-> [seq EXCEPT !.steps = Append(@, c.fn)]]

Requests(calls, seq) ==
    SetToBag({Request(calls[i], seq) : i \in {j \in DOMAIN calls : IsHookCall(calls[j])}})

InProgress == pending # EmptyBag

IsUserCbCall(c) == c.fn = "user_cb"

UserCbCalls(calls) == SelectSeq(calls, IsUserCbCall)

HookCalls(calls) == SelectSeq(calls, IsHookCall)

CompletionEvents == {"i2c_write_complete", "timer_expired", "i2c_read_complete"}

\* The last step ended a sequence: a completion handler ran and requested nothing more.
IsTerminalStep == last.event \in CompletionEvents /\ HookCalls(last.calls) = <<>>

(***************************************************************************)
(* Initial state: sht3x_create has returned OK. The factory hook returned  *)
(* the instance memory, create copied the three hooks and the I2C address  *)
(* of the config into it and left every other field as the hook delivered  *)
(* it. The hooks are the environment of the model and not part of self.    *)
(* repeatability and clock_stretching are the fields sht3x.c reads and     *)
(* writes through self, though sht3x_private.h does not declare them.      *)
(***************************************************************************)
Init ==
    /\ \E i2c_addr \in I2cAddrs, buf \in InitialReadBufs :
           self = [this |-> "instance_memory",
                   i2c_write |-> "mock_sht3x_i2c_write",
                   i2c_read |-> "mock_sht3x_i2c_read",
                   start_timer |-> "mock_sht3x_start_timer",
                   i2c_addr |-> i2c_addr,
                   sequence_cb |-> NULL,
                   sequence_cb_user_data |-> 0,
                   i2c_read_buf |-> buf,
                   sequence_type |-> 0,
                   sequence_flags |-> 0,
                   repeatability |-> 0,
                   clock_stretching |-> 0,
                   busy |-> FALSE,
                   verify_crc |-> FALSE]
    /\ lifecycle = "created"
    /\ pending = EmptyBag
    /\ nseq = 0
    /\ other = [this |-> NULL]
    /\ last = [event |-> "create", fn |-> "sht3x_create", ret |-> <<SHT3X_RESULT_CODE_OK>>,
               result_code |-> <<>>, calls |-> <<>>, in_progress |-> FALSE,
               after_terminal |-> FALSE, seq |-> NoSeq]

(***************************************************************************)
(* A call of a public function by the user.                                *)
(***************************************************************************)
\* args are the arguments of the call that the sequence it starts works with later on
\* (repeatability, clock stretching, measurement rate, flags); they are remembered with
\* the sequence.
PublicCallWith(fn, args, res, cb, user_data) ==
    LET seq == [op |-> fn, cb |-> cb, user_data |-> user_data, steps |-> <<>>, delay |-> 0,
                args |-> args]
        reqs == Requests(res.calls, seq)
    IN  /\ lifecycle = "created"
        /\ nseq + BagCardinality(reqs) <= MaxSeq
        /\ self' = res.mem
        /\ pending' = pending (+) reqs
        /\ nseq' = nseq + BagCardinality(reqs)
        /\ last' = [event |-> "call", fn |-> fn, ret |-> res.ret, result_code |-> <<>>,
                    calls |-> res.calls, in_progress |-> InProgress,
                    after_terminal |-> IsTerminalStep, seq |-> seq]
        /\ UNCHANGED <<lifecycle, other>>

PublicCall(fn, res, cb, user_data) == PublicCallWith(fn, <<>>, res, cb, user_data)

SendSingleShotMeasurementCmd ==
    \E opt \in SingleShotOptions, cb \in CompleteCbs :
        PublicCall("sht3x_send_single_shot_measurement_cmd",
                   sht3x_send_single_shot_measurement_cmd(InstancePtr, opt[1], opt[2], cb, NextUserData),
                   cb, NextUserData)

ReadMeasurement ==
    \E flags \in ReadFlags, cb \in MeasCompleteCbs :
        PublicCallWith("sht3x_read_measurement", [flags |-> flags],
                       sht3x_read_measurement(InstancePtr, flags, cb, NextUserData), cb, NextUserData)

StartPeriodicMeasurement ==
    \E opt \in PeriodicOptions, cb \in CompleteCbs :
        PublicCall("sht3x_start_periodic_measurement",
                   sht3x_start_periodic_measurement(InstancePtr, opt[1], opt[2], cb, NextUserData),
                   cb, NextUserData)

StartPeriodicMeasurementArt ==
    \E cb \in CompleteCbs :
        PublicCall("sht3x_start_periodic_measurement_art",
                   sht3x_start_periodic_measurement_art(InstancePtr, cb, NextUserData), cb, NextUserData)

FetchPeriodicMeasurementData ==
    \E cb \in CompleteCbs :
        PublicCall("sht3x_fetch_periodic_measurement_data",
                   sht3x_fetch_periodic_measurement_data(InstancePtr, cb, NextUserData), cb, NextUserData)

StopPeriodicMeasurement ==
    \E cb \in CompleteCbs :
        PublicCall("sht3x_stop_periodic_measurement",
                   sht3x_stop_periodic_measurement(InstancePtr, cb, NextUserData), cb, NextUserData)

SoftReset ==
    \E cb \in CompleteCbs :
        PublicCall("sht3x_soft_reset", sht3x_soft_reset(InstancePtr, cb, NextUserData), cb, NextUserData)

EnableHeater ==
    \E cb \in CompleteCbs :
        PublicCall("sht3x_enable_heater", sht3x_enable_heater(InstancePtr, cb, NextUserData), cb, NextUserData)

DisableHeater ==
    \E cb \in CompleteCbs :
        PublicCall("sht3x_disable_heater", sht3x_disable_heater(InstancePtr, cb, NextUserData), cb, NextUserData)

SendReadStatusRegisterCmd ==
    \E cb \in CompleteCbs :
        PublicCall("sht3x_send_read_status_register_cmd",
                   sht3x_send_read_status_register_cmd(InstancePtr, cb, NextUserData), cb, NextUserData)

ClearStatusRegister ==
    \E cb \in CompleteCbs :
        PublicCall("sht3x_clear_status_register",
                   sht3x_clear_status_register(InstancePtr, cb, NextUserData), cb, NextUserData)

ReadSingleShotMeasurement ==
    \E opt \in SingleShotOptions, flags \in ReadFlags, cb \in MeasCompleteCbs :
        PublicCallWith("sht3x_read_single_shot_measurement",
                       [repeatability |-> opt[1], clock_stretching |-> opt[2], flags |-> flags],
                       sht3x_read_single_shot_measurement(InstancePtr, opt[1], opt[2], flags, cb,
                                                          NextUserData),
                       cb, NextUserData)

ReadPeriodicMeasurement ==
    \E flags \in ReadFlags, cb \in MeasCompleteCbs :
        PublicCallWith("sht3x_read_periodic_measurement", [flags |-> flags],
                       sht3x_read_periodic_measurement(InstancePtr, flags, cb, NextUserData), cb, NextUserData)

SoftResetWithDelay ==
    \E cb \in CompleteCbs :
        PublicCall("sht3x_soft_reset_with_delay",
                   sht3x_soft_reset_with_delay(InstancePtr, cb, NextUserData), cb, NextUserData)

ReadStatusRegister ==
    \E verify_crc \in BOOLEAN, cb \in ReadStatusRegCompleteCbs :
        PublicCall("sht3x_read_status_register",
                   sht3x_read_status_register(InstancePtr, verify_crc, cb, NextUserData), cb, NextUserData)

\* The instance is gone unless destroy refused with a status other than OK.
Destroy ==
    \E free_instance_memory \in FreeInstanceMemoryFns :
        LET res == sht3x_destroy(InstancePtr, free_instance_memory, NextUserData)
            refused == res.ret # <<>> /\ res.ret # <<SHT3X_RESULT_CODE_OK>>
        IN  /\ lifecycle = "created"
            /\ self' = res.mem
            /\ pending' = pending
            /\ nseq' = nseq
            /\ other' = other
            /\ lifecycle' = IF refused THEN "created"
                            ELSE IF res.calls # <<>> THEN "freed"
                            ELSE "destroyed"
            /\ last' = [event |-> "call", fn |-> "sht3x_destroy", ret |-> res.ret,
                        result_code |-> <<>>, calls |-> res.calls, in_progress |-> InProgress,
                        after_terminal |-> IsTerminalStep,
                        seq |-> NewSeq("sht3x_destroy", free_instance_memory, NextUserData)]

(***************************************************************************)
(* The hooks' side: a requested bus write, timer or bus read completes and *)
(* invokes the continuation it was given, once.                            *)
(***************************************************************************)
Complete(event, r, result, did) ==
    LET seq == IF r.fn = "start_timer" THEN [r.seq EXCEPT !.delay = r.arg] ELSE r.seq
    IN  /\ lifecycle \in {"created", "destroyed", "freed"}
        /\ r.cb_user_data = InstancePtr
        /\ self' = did.mem
        /\ pending' = (pending (-) SetToBag({r})) (+) Requests(did.calls, seq)
        /\ last' = [event |-> event, fn |-> r.cb, ret |-> <<>>, result_code |-> result,
                    calls |-> did.calls, in_progress |-> TRUE, after_terminal |-> FALSE,
                    seq |-> seq]
        /\ UNCHANGED <<lifecycle, nseq, other>>

I2cWriteComplete ==
    \E r \in BagToSet(pending), result_code \in I2CResultCodes :
        /\ r.fn = "i2c_write"
        /\ Complete("i2c_write_complete", r, <<result_code>>,
                    I2CTransactionCompleteCb(r.cb, self, result_code))

TimerExpired ==
    \E r \in BagToSet(pending) :
        /\ r.fn = "start_timer"
        /\ Complete("timer_expired", r, <<>>, TimerExpiredCb(r.cb, self))

\* On success the bus has written r.arg bytes into the read buffer before the callback runs.
I2cReadComplete ==
    \E r \in BagToSet(pending), result_code \in I2CResultCodes, data \in BusFrames :
        /\ r.fn = "i2c_read"
        /\ result_code # SHT3X_I2C_RESULT_CODE_OK => data = GoodFrame
        /\ LET filled == [i \in 1..SHT3X_I2C_READ_BUF_SIZE |->
                              IF i <= r.arg THEN data[i] ELSE self.i2c_read_buf[i]]
               mem == IF result_code = SHT3X_I2C_RESULT_CODE_OK
                          THEN [self EXCEPT !.i2c_read_buf = filled] ELSE self
           IN  Complete("i2c_read_complete", r, <<result_code>>,
                        I2CTransactionCompleteCb(r.cb, mem, result_code))

\* A completion that arrives after the free hook got the memory back runs on freed
\* memory: it may behave as if the memory were intact (Complete) or fault.
UseAfterFree ==
    /\ lifecycle = "freed"
    /\ InProgress
    /\ lifecycle' = "crashed"
    /\ pending' = EmptyBag
    /\ last' = [event |-> "fault", fn |-> "none", ret |-> <<>>, result_code |-> <<>>,
                calls |-> <<>>, in_progress |-> TRUE, after_terminal |-> FALSE, seq |-> NoSeq]
    /\ UNCHANGED <<self, nseq, other>>

Next ==
    \/ SendSingleShotMeasurementCmd
    \/ ReadMeasurement
    \/ StartPeriodicMeasurement
    \/ StartPeriodicMeasurementArt
    \/ FetchPeriodicMeasurementData
    \/ StopPeriodicMeasurement
    \/ SoftReset
    \/ EnableHeater
    \/ DisableHeater
    \/ SendReadStatusRegisterCmd
    \/ ClearStatusRegister
    \/ ReadSingleShotMeasurement
    \/ ReadPeriodicMeasurement
    \/ SoftResetWithDelay
    \/ ReadStatusRegister
    \/ Destroy
    \/ I2cWriteComplete
    \/ TimerExpired
    \/ I2cReadComplete
    \/ UseAfterFree

Spec == Init /\ [][Next]_vars

\* Every requested bus write, bus read and timer eventually invokes its completion callback.
FairSpec ==
    /\ Spec
    /\ WF_vars(I2cWriteComplete)
    /\ WF_vars(TimerExpired)
    /\ WF_vars(I2cReadComplete)

(***************************************************************************)
(* One sequence, every argument value: the user calls public functions     *)
(* with every repeatability, clock stretching, measurement rate and        *)
(* combination of the four read flags until a call starts a sequence, and  *)
(* lets that sequence run. A rejected call starts none.                    *)
(***************************************************************************)
Repeatabilities == {SHT3X_MEAS_REPEATABILITY_HIGH, SHT3X_MEAS_REPEATABILITY_MEDIUM,
                    SHT3X_MEAS_REPEATABILITY_LOW}

ClockStretchings == {SHT3X_CLOCK_STRETCHING_ENABLED, SHT3X_CLOCK_STRETCHING_DISABLED}

MeasurementsPerSecond == {SHT3X_MPS_0_5, SHT3X_MPS_1, SHT3X_MPS_2, SHT3X_MPS_4, SHT3X_MPS_10}

\* Every value of the four flag bits, the invalid combinations included.
AllReadFlags == 0..(2 * SHT3X_FLAG_VERIFY_CRC_HUM - 1)

\* The public functions that write a command of the fixed 2-byte codes.
FixedCodeOps == {"sht3x_start_periodic_measurement_art", "sht3x_fetch_periodic_measurement_data",
                 "sht3x_stop_periodic_measurement", "sht3x_soft_reset", "sht3x_enable_heater",
                 "sht3x_disable_heater", "sht3x_send_read_status_register_cmd",
                 "sht3x_clear_status_register", "sht3x_soft_reset_with_delay"}

FixedCodeCall(fn, cb, user_data) ==
    CASE fn = "sht3x_start_periodic_measurement_art" ->
             sht3x_start_periodic_measurement_art(InstancePtr, cb, user_data)
      [] fn = "sht3x_fetch_periodic_measurement_data" ->
             sht3x_fetch_periodic_measurement_data(InstancePtr, cb, user_data)
      [] fn = "sht3x_stop_periodic_measurement" ->
             sht3x_stop_periodic_measurement(InstancePtr, cb, user_data)
      [] fn = "sht3x_soft_reset" -> sht3x_soft_reset(InstancePtr, cb, user_data)
      [] fn = "sht3x_enable_heater" -> sht3x_enable_heater(InstancePtr, cb, user_data)
      [] fn = "sht3x_disable_heater" -> sht3x_disable_heater(InstancePtr, cb, user_data)
      [] fn = "sht3x_send_read_status_register_cmd" ->
             sht3x_send_read_status_register_cmd(InstancePtr, cb, user_data)
      [] fn = "sht3x_clear_status_register" ->
             sht3x_clear_status_register(InstancePtr, cb, user_data)
      [] fn = "sht3x_soft_reset_with_delay" ->
             sht3x_soft_reset_with_delay(InstancePtr, cb, user_data)

\* A call made before any call has started a sequence.
FirstCall(fn, args, res, cb, user_data) ==
    nseq = 0 /\ PublicCallWith(fn, args, res, cb, user_data)

ArgSendSingleShotMeasurementCmd ==
    \E repeatability \in Repeatabilities, clock_stretching \in ClockStretchings,
       cb \in CompleteCbs :
        FirstCall("sht3x_send_single_shot_measurement_cmd",
                  [repeatability |-> repeatability, clock_stretching |-> clock_stretching],
                  sht3x_send_single_shot_measurement_cmd(InstancePtr, repeatability, clock_stretching,
                                                         cb, NextUserData),
                  cb, NextUserData)

ArgStartPeriodicMeasurement ==
    \E repeatability \in Repeatabilities, mps \in MeasurementsPerSecond, cb \in CompleteCbs :
        FirstCall("sht3x_start_periodic_measurement",
                  [repeatability |-> repeatability, mps |-> mps],
                  sht3x_start_periodic_measurement(InstancePtr, repeatability, mps, cb, NextUserData),
                  cb, NextUserData)

ArgFixedCodeCommand ==
    \E fn \in FixedCodeOps, cb \in CompleteCbs :
        FirstCall(fn, <<>>, FixedCodeCall(fn, cb, NextUserData), cb, NextUserData)

ArgReadMeasurement ==
    \E flags \in AllReadFlags, cb \in MeasCompleteCbs :
        FirstCall("sht3x_read_measurement", [flags |-> flags],
                  sht3x_read_measurement(InstancePtr, flags, cb, NextUserData), cb, NextUserData)

ArgReadSingleShotMeasurement ==
    \E repeatability \in Repeatabilities, clock_stretching \in ClockStretchings,
       flags \in AllReadFlags, cb \in MeasCompleteCbs :
        FirstCall("sht3x_read_single_shot_measurement",
                  [repeatability |-> repeatability, clock_stretching |-> clock_stretching,
                   flags |-> flags],
                  sht3x_read_single_shot_measurement(InstancePtr, repeatability, clock_stretching,
                                                     flags, cb, NextUserData),
                  cb, NextUserData)

ArgReadPeriodicMeasurement ==
    \E flags \in AllReadFlags, cb \in MeasCompleteCbs :
        FirstCall("sht3x_read_periodic_measurement", [flags |-> flags],
                  sht3x_read_periodic_measurement(InstancePtr, flags, cb, NextUserData),
                  cb, NextUserData)

ArgReadStatusRegister ==
    \E verify_crc \in BOOLEAN, cb \in ReadStatusRegCompleteCbs :
        FirstCall("sht3x_read_status_register", [verify_crc |-> verify_crc],
                  sht3x_read_status_register(InstancePtr, verify_crc, cb, NextUserData),
                  cb, NextUserData)

ArgNext ==
    \/ ArgSendSingleShotMeasurementCmd
    \/ ArgStartPeriodicMeasurement
    \/ ArgFixedCodeCommand
    \/ ArgReadMeasurement
    \/ ArgReadSingleShotMeasurement
    \/ ArgReadPeriodicMeasurement
    \/ ArgReadStatusRegister
    \/ I2cWriteComplete
    \/ TimerExpired
    \/ I2cReadComplete

ArgSpec == Init /\ [][ArgNext]_vars

(***************************************************************************)
(* The entry guards. GuardSpec starts before the instance exists. It calls *)
(* sht3x_create with every combination of a null or non-null out-pointer,  *)
(* configuration, hook and factory result and with valid and invalid bus   *)
(* addresses; once an instance exists it calls every public function with  *)
(* a null instance. OptionSpec starts from a created instance and calls    *)
(* the three functions that take measurement options with every value of   *)
(* one option byte while the other option is valid, and lets an accepted   *)
(* call run.                                                               *)
(***************************************************************************)
UInt8 == 0..255

\* The configurations: user data 0x1 and 0x42; bus addresses 0x43 .. 0x46 and
\* the lowest and the highest address byte.
Cfgs ==
    {[cfg |-> NULL]} \cup
    [cfg : {"&cfg"},
     get_instance_memory : {NULL, "mock_sht3x_get_instance_memory"},
     get_instance_memory_user_data : {1, 66},
     i2c_write : {NULL, "mock_sht3x_i2c_write"},
     i2c_read : {NULL, "mock_sht3x_i2c_read"},
     start_timer : {NULL, "mock_sht3x_start_timer"},
     i2c_addr : {0, 67, 68, 69, 70, 255}]

GuardInit ==
    /\ \E buf \in InitialReadBufs :
           self = [this |-> "instance_memory",
                   i2c_write |-> NULL,
                   i2c_read |-> NULL,
                   start_timer |-> NULL,
                   i2c_addr |-> 0,
                   sequence_cb |-> NULL,
                   sequence_cb_user_data |-> 0,
                   i2c_read_buf |-> buf,
                   sequence_type |-> 0,
                   sequence_flags |-> 0,
                   repeatability |-> 0,
                   clock_stretching |-> 0,
                   busy |-> FALSE,
                   verify_crc |-> FALSE]
    /\ lifecycle = "uncreated"
    /\ pending = EmptyBag
    /\ nseq = 0
    /\ other = [this |-> NULL]
    /\ last = [event |-> "start", fn |-> "none", ret |-> <<>>,
               result_code |-> <<>>, calls |-> <<>>, in_progress |-> FALSE,
               after_terminal |-> FALSE, seq |-> NoSeq]

Create ==
    \E instance \in {NULL, "&sht3x"}, cfg \in Cfgs, instance_memory \in {NULL, InstancePtr} :
        LET res == sht3x_create(instance, cfg, instance_memory)
        IN  /\ lifecycle = "uncreated"
            /\ self' = res.mem
            /\ lifecycle' = IF res.ret = <<SHT3X_RESULT_CODE_OK>> THEN "created" ELSE "uncreated"
            /\ last' = [event |-> "call", fn |-> "sht3x_create", ret |-> res.ret,
                        result_code |-> <<>>, calls |-> res.calls, in_progress |-> FALSE,
                        after_terminal |-> FALSE,
                        seq |-> [op |-> "sht3x_create", cb |-> NULL, user_data |-> 0,
                                 steps |-> <<>>, delay |-> 0,
                                 args |-> [instance |-> instance, cfg |-> cfg,
                                           instance_memory |-> instance_memory,
                                           out |-> res.instance]]]
            /\ UNCHANGED <<pending, nseq, other>>

\* A call of fn with a null instance and otherwise valid arguments.
NullSelfCallOf(fn, cb, user_data) ==
    CASE fn = "sht3x_send_single_shot_measurement_cmd" ->
             sht3x_send_single_shot_measurement_cmd(NULL, SHT3X_MEAS_REPEATABILITY_HIGH,
                                                    SHT3X_CLOCK_STRETCHING_DISABLED, cb, user_data)
      [] fn = "sht3x_read_measurement" ->
             sht3x_read_measurement(NULL, SHT3X_FLAG_READ_TEMP, cb, user_data)
      [] fn = "sht3x_start_periodic_measurement" ->
             sht3x_start_periodic_measurement(NULL, SHT3X_MEAS_REPEATABILITY_HIGH, SHT3X_MPS_2,
                                              cb, user_data)
      [] fn = "sht3x_read_single_shot_measurement" ->
             sht3x_read_single_shot_measurement(NULL, SHT3X_MEAS_REPEATABILITY_HIGH,
                                                SHT3X_CLOCK_STRETCHING_DISABLED,
                                                SHT3X_FLAG_READ_TEMP, cb, user_data)
      [] fn = "sht3x_read_periodic_measurement" ->
             sht3x_read_periodic_measurement(NULL, SHT3X_FLAG_READ_TEMP, cb, user_data)
      [] fn = "sht3x_start_periodic_measurement_art" ->
             sht3x_start_periodic_measurement_art(NULL, cb, user_data)
      [] fn = "sht3x_fetch_periodic_measurement_data" ->
             sht3x_fetch_periodic_measurement_data(NULL, cb, user_data)
      [] fn = "sht3x_stop_periodic_measurement" ->
             sht3x_stop_periodic_measurement(NULL, cb, user_data)
      [] fn = "sht3x_soft_reset" -> sht3x_soft_reset(NULL, cb, user_data)
      [] fn = "sht3x_enable_heater" -> sht3x_enable_heater(NULL, cb, user_data)
      [] fn = "sht3x_disable_heater" -> sht3x_disable_heater(NULL, cb, user_data)
      [] fn = "sht3x_send_read_status_register_cmd" ->
             sht3x_send_read_status_register_cmd(NULL, cb, user_data)
      [] fn = "sht3x_clear_status_register" ->
             sht3x_clear_status_register(NULL, cb, user_data)
      [] fn = "sht3x_soft_reset_with_delay" ->
             sht3x_soft_reset_with_delay(NULL, cb, user_data)

NullSelfCall ==
    \E fn \in FixedCodeOps \cup {"sht3x_send_single_shot_measurement_cmd",
                                "sht3x_read_measurement",
                                "sht3x_start_periodic_measurement",
                                "sht3x_read_single_shot_measurement",
                                "sht3x_read_periodic_measurement"},
       cb \in {"sht3x_complete_cb", "sht3x_meas_complete_cb"} :
        /\ cb = (IF fn \in {"sht3x_read_measurement", "sht3x_read_single_shot_measurement",
                             "sht3x_read_periodic_measurement"}
                     THEN "sht3x_meas_complete_cb" ELSE "sht3x_complete_cb")
        /\ FirstCall(fn, [self |-> NULL], NullSelfCallOf(fn, cb, NextUserData), cb, NextUserData)

DestroyNullSelf ==
    \E free_instance_memory \in FreeInstanceMemoryFns :
        LET res == sht3x_destroy(NULL, free_instance_memory, NextUserData)
        IN  /\ lifecycle = "created"
            /\ nseq = 0
            /\ self' = res.mem
            /\ last' = [event |-> "call", fn |-> "sht3x_destroy", ret |-> res.ret,
                        result_code |-> <<>>, calls |-> res.calls, in_progress |-> InProgress,
                        after_terminal |-> IsTerminalStep,
                        seq |-> [op |-> "sht3x_destroy", cb |-> free_instance_memory,
                                 user_data |-> NextUserData, steps |-> <<>>, delay |-> 0,
                                 args |-> [self |-> NULL]]]
            /\ UNCHANGED <<lifecycle, pending, nseq, other>>

\* The option pairs: every value of one byte, the other valid.
OptionBytes(valid_1, valid_2) == (UInt8 \X {valid_2}) \cup ({valid_1} \X UInt8)

OptionSendSingleShotMeasurementCmd ==
    \E opt \in OptionBytes(SHT3X_MEAS_REPEATABILITY_HIGH, SHT3X_CLOCK_STRETCHING_DISABLED),
       cb \in {"sht3x_complete_cb"} :
        FirstCall("sht3x_send_single_shot_measurement_cmd",
                  [repeatability |-> opt[1], clock_stretching |-> opt[2]],
                  sht3x_send_single_shot_measurement_cmd(InstancePtr, opt[1], opt[2],
                                                         cb, NextUserData),
                  cb, NextUserData)

OptionReadSingleShotMeasurement ==
    \E opt \in OptionBytes(SHT3X_MEAS_REPEATABILITY_HIGH, SHT3X_CLOCK_STRETCHING_DISABLED),
       flags \in {SHT3X_FLAG_READ_TEMP}, cb \in {"sht3x_meas_complete_cb"} :
        FirstCall("sht3x_read_single_shot_measurement",
                  [repeatability |-> opt[1], clock_stretching |-> opt[2], flags |-> flags],
                  sht3x_read_single_shot_measurement(InstancePtr, opt[1], opt[2],
                                                     flags, cb, NextUserData),
                  cb, NextUserData)

OptionStartPeriodicMeasurement ==
    \E opt \in OptionBytes(SHT3X_MEAS_REPEATABILITY_HIGH, SHT3X_MPS_2), cb \in {"sht3x_complete_cb"} :
        FirstCall("sht3x_start_periodic_measurement",
                  [repeatability |-> opt[1], mps |-> opt[2]],
                  sht3x_start_periodic_measurement(InstancePtr, opt[1], opt[2], cb, NextUserData),
                  cb, NextUserData)

\* Every value of the flags byte, with valid options.
OptionReadFlags ==
    \E flags \in UInt8, cb \in {"sht3x_meas_complete_cb"} :
        FirstCall("sht3x_read_single_shot_measurement",
                  [repeatability |-> SHT3X_MEAS_REPEATABILITY_HIGH,
                   clock_stretching |-> SHT3X_CLOCK_STRETCHING_DISABLED, flags |-> flags],
                  sht3x_read_single_shot_measurement(InstancePtr, SHT3X_MEAS_REPEATABILITY_HIGH,
                                                     SHT3X_CLOCK_STRETCHING_DISABLED,
                                                     flags, cb, NextUserData),
                  cb, NextUserData)

GuardNext ==
    \/ Create
    \/ NullSelfCall
    \/ DestroyNullSelf

GuardSpec == GuardInit /\ [][GuardNext]_vars

\* Creation from every config, then one sequence of any public function.
ConfigNext ==
    \/ Create
    \/ ArgNext

ConfigSpec == GuardInit /\ [][ConfigNext]_vars

(***************************************************************************)
(* Two instances. The program has created a second instance, at the other  *)
(* address; the variable self holds the instance whose handle the caller   *)
(* passes to the driver, and a continuation runs on the instance that its  *)
(* user data points to.                                                    *)
(***************************************************************************)
PairInit ==
    /\ \E buf \in InitialReadBufs :
           self = [this |-> "instance_memory",
                   i2c_write |-> "mock_sht3x_i2c_write",
                   i2c_read |-> "mock_sht3x_i2c_read",
                   start_timer |-> "mock_sht3x_start_timer",
                   i2c_addr |-> 68,
                   sequence_cb |-> NULL,
                   sequence_cb_user_data |-> 0,
                   i2c_read_buf |-> buf,
                   sequence_type |-> 0,
                   sequence_flags |-> 0,
                   repeatability |-> 0,
                   clock_stretching |-> 0,
                   busy |-> FALSE,
                   verify_crc |-> FALSE]
    /\ other = [self EXCEPT !.this = "instance_memory_2", !.i2c_addr = 69]
    /\ lifecycle = "created"
    /\ pending = EmptyBag
    /\ nseq = 0
    /\ last = [event |-> "create", fn |-> "sht3x_create", ret |-> <<SHT3X_RESULT_CODE_OK>>,
               result_code |-> <<>>, calls |-> <<>>, in_progress |-> FALSE,
               after_terminal |-> FALSE, seq |-> NoSeq]

\* The caller turns to its other handle.
Switch ==
    /\ other.this # NULL
    /\ self' = other
    /\ other' = self
    /\ UNCHANGED <<lifecycle, pending, nseq, last>>

PairNext ==
    \/ Switch
    \/ SendSingleShotMeasurementCmd
    \/ ReadMeasurement
    \/ ReadPeriodicMeasurement
    \/ SoftResetWithDelay
    \/ I2cWriteComplete
    \/ TimerExpired
    \/ I2cReadComplete

PairSpec == PairInit /\ [][PairNext]_vars

OptionNext ==
    \/ OptionSendSingleShotMeasurementCmd
    \/ OptionReadSingleShotMeasurement
    \/ OptionStartPeriodicMeasurement
    \/ OptionReadFlags
    \/ I2cWriteComplete
    \/ TimerExpired
    \/ I2cReadComplete

OptionSpec == Init /\ [][OptionNext]_vars

(***************************************************************************)
(* The arithmetic on received bytes. FrameSpec starts with a frame in the  *)
(* read buffer and the flags of a measurement read in the instance, and    *)
(* applies sht3x_crc8 to the two byte pairs of the frame, and the          *)
(* completion handler of the read, with a successful bus result, to the    *)
(* instance. The frames are the frame of the tests and, for every pair of  *)
(* bytes, the frame whose temperature bytes are that pair and whose        *)
(* humidity bytes are its complement. Every frame is read with both        *)
(* components asked for; the frame of the tests and the frames of two      *)
(* equal temperature bytes are also read with one component asked for.     *)
(***************************************************************************)
Frames ==
    {GoodFrame} \cup {<<b0, b1, 0, 255 - b0, 255 - b1, 0>> : b0 \in UInt8, b1 \in UInt8}

FrameInit ==
    /\ \E i2c_addr \in I2cAddrs, buf \in Frames,
          flags \in {SHT3X_FLAG_READ_TEMP, SHT3X_FLAG_READ_HUM,
                     SHT3X_FLAG_READ_TEMP + SHT3X_FLAG_READ_HUM} :
        /\ \/ flags = SHT3X_FLAG_READ_TEMP + SHT3X_FLAG_READ_HUM
           \/ buf = GoodFrame
           \/ buf[1] = buf[2]
        /\ self = [this |-> "instance_memory",
                   i2c_write |-> "mock_sht3x_i2c_write",
                   i2c_read |-> "mock_sht3x_i2c_read",
                   start_timer |-> "mock_sht3x_start_timer",
                   i2c_addr |-> i2c_addr,
                   sequence_cb |-> "sht3x_meas_complete_cb",
                   sequence_cb_user_data |-> 1,
                   i2c_read_buf |-> buf,
                   sequence_type |-> SHT3X_SEQUENCE_TYPE_READ_MEAS,
                   sequence_flags |-> flags,
                   repeatability |-> 0,
                   clock_stretching |-> 0,
                   busy |-> FALSE,
                   verify_crc |-> FALSE]
    /\ lifecycle = "created"
    /\ pending = EmptyBag
    /\ nseq = 0
    /\ other = [this |-> NULL]
    /\ last = [event |-> "create", fn |-> "sht3x_create", ret |-> <<SHT3X_RESULT_CODE_OK>>,
               result_code |-> <<>>, calls |-> <<>>, in_progress |-> FALSE,
               after_terminal |-> FALSE, seq |-> NoSeq]

(***************************************************************************)
(* sht3x.h: the status register predicates. They are declared in sht3x.h   *)
(* and exercised by test/sht3x_no_setup.cpp, but sht3x.c has no definition *)
(* of them: the bit each one tests is taken from the specification.        *)
(***************************************************************************)
sht3x_is_crc_of_last_write_transfer_correct(status_reg_val) == Bit(status_reg_val, 1) = 0

sht3x_is_last_command_executed_successfully(status_reg_val) == Bit(status_reg_val, 2) = 0

sht3x_is_system_reset_detected(status_reg_val) == Bit(status_reg_val, 16) = 1

sht3x_is_temperature_alert_raised(status_reg_val) == Bit(status_reg_val, 1024) = 1

sht3x_is_humidity_alert_raised(status_reg_val) == Bit(status_reg_val, 2048) = 1

sht3x_is_heater_on_by_bit_12(status_reg_val) == Bit(status_reg_val, 4096) = 1

sht3x_is_heater_on(status_reg_val) == Bit(status_reg_val, 8192) = 1

sht3x_is_at_least_one_alert_pending(status_reg_val) == Bit(status_reg_val, 32768) = 1

\* The seven predicates applied to the 16-bit value held big-endian in the
\* first two bytes of the read buffer; a C bool is recorded as 0 or 1.
FrameStatusPredicates ==
    LET status_reg_val == two_big_endian_bytes_to_uint16(self.i2c_read_buf, 1)
        AsInt(b) == IF b THEN 1 ELSE 0
    IN  /\ last' = [last EXCEPT
               !.event = "apply", !.fn = "sht3x_is",
               !.ret = <<AsInt(sht3x_is_crc_of_last_write_transfer_correct(status_reg_val)),
                         AsInt(sht3x_is_last_command_executed_successfully(status_reg_val)),
                         AsInt(sht3x_is_system_reset_detected(status_reg_val)),
                         AsInt(sht3x_is_temperature_alert_raised(status_reg_val)),
                         AsInt(sht3x_is_humidity_alert_raised(status_reg_val)),
                         AsInt(sht3x_is_heater_on(status_reg_val)),
                         AsInt(sht3x_is_at_least_one_alert_pending(status_reg_val))>>,
               !.calls = <<>>]
        /\ UNCHANGED <<self, lifecycle, pending, nseq, other>>

\* sht3x_crc8(&i2c_read_buf[0]) and sht3x_crc8(&i2c_read_buf[3])
FrameCrc8 ==
    /\ last' = [last EXCEPT !.event = "apply", !.fn = "sht3x_crc8",
                            !.ret = <<sht3x_crc8(self.i2c_read_buf, 1),
                                      sht3x_crc8(self.i2c_read_buf, 4)>>,
                            !.calls = <<>>]
    /\ UNCHANGED <<self, lifecycle, pending, nseq, other>>

FrameMeasComplete ==
    LET did == meas_i2c_complete_cb(self, SHT3X_I2C_RESULT_CODE_OK)
    IN  /\ self' = did.mem
        /\ last' = [last EXCEPT !.event = "apply", !.fn = "meas_i2c_complete_cb",
                                !.ret = <<>>, !.calls = did.calls]
        /\ UNCHANGED <<lifecycle, pending, nseq, other>>

FrameNext ==
    \/ FrameCrc8
    \/ FrameMeasComplete
    \/ FrameStatusPredicates

FrameSpec == FrameInit /\ [][FrameNext]_vars

(***************************************************************************)
(* Properties                                                              *)
(***************************************************************************)
MeasReadOps == {"sht3x_read_measurement", "sht3x_read_periodic_measurement"}

WriteTimerReadOps == {"sht3x_read_single_shot_measurement", "sht3x_read_periodic_measurement",
                      "sht3x_read_status_register"}

\* C1: a public function called while a sequence is in progress (a bus write, a timer
\* or a bus read of an accepted sequence is outstanding) returns BUSY, and the call
\* invokes no user completion callback.
C1_CallInProgressReturnsBusy ==
    (last.event = "call" /\ last.in_progress) =>
        /\ last.ret = <<SHT3X_RESULT_CODE_BUSY>>
        /\ UserCbCalls(last.calls) = <<>>

\* C2: in every reachable state at most one bus write, timer or bus read requested by
\* the driver is outstanding.
C2_AtMostOneOutstanding == BagCardinality(pending) <= 1

\* C3: the completion callback given when a sequence was started is invoked exactly
\* once, at the sequence's terminal step and with the user data given with it, if it
\* is non-null; if it is null the terminal step invokes no callback. No other step
\* invokes a user callback.
C3_OwnCallbackExactlyOnce ==
    LET ucs == UserCbCalls(last.calls)
    IN  IF IsTerminalStep /\ last.seq.cb # NULL
            THEN /\ Len(ucs) = 1
                 /\ ucs[1].cb = last.seq.cb
                 /\ ucs[1].user_data = last.seq.user_data
            ELSE ucs = <<>>

\* C4: the public call that follows the terminal step of a sequence, with valid
\* arguments and nothing else in progress, returns OK.
C4_CallAfterTerminalStepReturnsOk ==
    (last.event = "call" /\ last.after_terminal /\ ~last.in_progress) =>
        last.ret = <<SHT3X_RESULT_CODE_OK>>

\* C5: a public call made while a sequence is in progress (the calls that are to be
\* rejected with BUSY) requests no bus write, bus read or timer and leaves the stored
\* callback, user data, sequence type and flags as they were.
C5_CallInProgressLeavesInstanceUntouched ==
    [][(InProgress /\ last'.event = "call") =>
           /\ HookCalls(last'.calls) = <<>>
           /\ pending' = pending
           /\ self'.sequence_cb = self.sequence_cb
           /\ self'.sequence_cb_user_data = self.sequence_cb_user_data
           /\ self'.sequence_type = self.sequence_type
           /\ self'.sequence_flags = self.sequence_flags]_vars

\* C6: when every requested bus write, bus read and timer completes, every accepted
\* sequence reaches its terminal step, at which its callback is delivered if non-null.
\* A sequence is identified by the user data it was started with.
C6_EverySequenceTerminates ==
    \A n \in 1..MaxSeq :
        (\E r \in BagToSet(pending) : r.seq.user_data = n)
            ~> (/\ IsTerminalStep
                /\ last.seq.user_data = n
                /\ last.seq.cb # NULL =>
                       \E i \in DOMAIN last.calls :
                           /\ last.calls[i].fn = "user_cb"
                           /\ last.calls[i].cb = last.seq.cb
                           /\ last.calls[i].user_data = n)

\* C7: sht3x_destroy called while a sequence is in progress returns BUSY and does not
\* invoke the free hook; called otherwise it returns OK and invokes a non-null free
\* hook exactly once, with the instance memory and the caller's user data.
C7_DestroyBusyOrFrees ==
    (last.event = "call" /\ last.fn = "sht3x_destroy") =>
        IF last.in_progress
            THEN last.ret = <<SHT3X_RESULT_CODE_BUSY>> /\ last.calls = <<>>
            ELSE /\ last.ret = <<SHT3X_RESULT_CODE_OK>>
                 /\ last.calls = IF last.seq.cb # NULL
                                     THEN <<[fn |-> "free_instance_memory", cb |-> last.seq.cb,
                                             instance_memory |-> InstancePtr,
                                             user_data |-> last.seq.user_data]>>
                                     ELSE <<>>

\* C8: when the measurement read fails, the user callback gets NO_DATA if the bus
\* reported an address NACK and the sequence was started by sht3x_read_measurement or
\* sht3x_read_periodic_measurement, and IO_ERR otherwise (an address NACK in a sequence
\* started by sht3x_read_single_shot_measurement; a bus error in all three).
C8_FailedMeasReadResult ==
    (/\ last.event = "i2c_read_complete"
     /\ last.fn = "meas_i2c_complete_cb"
     /\ last.result_code # <<SHT3X_I2C_RESULT_CODE_OK>>) =>
        \A i \in DOMAIN last.calls :
            IsUserCbCall(last.calls[i]) =>
                last.calls[i].result_code =
                    IF /\ last.result_code = <<SHT3X_I2C_RESULT_CODE_ADDRESS_NACK>>
                       /\ last.seq.op \in MeasReadOps
                        THEN SHT3X_RESULT_CODE_NO_DATA
                        ELSE SHT3X_RESULT_CODE_IO_ERR

\* C9: when the command write of a sequence started by sht3x_read_single_shot_measurement
\* or sht3x_read_periodic_measurement completes with a result other than OK, no timer and
\* no bus read is requested, and the sequence's callback, if non-null, fires once, with
\* IO_ERR.
C9_FailedWriteEndsSequence ==
    (/\ last.event = "i2c_write_complete"
     /\ last.seq.op \in {"sht3x_read_single_shot_measurement", "sht3x_read_periodic_measurement"}
     /\ last.result_code # <<SHT3X_I2C_RESULT_CODE_OK>>) =>
        /\ HookCalls(last.calls) = <<>>
        /\ \A i \in DOMAIN last.calls :
               IsUserCbCall(last.calls[i]) => last.calls[i].result_code = SHT3X_RESULT_CODE_IO_ERR
        /\ last.seq.cb # NULL => Len(UserCbCalls(last.calls)) = 1

\* C10: in a sequence started by sht3x_read_single_shot_measurement,
\* sht3x_read_periodic_measurement or sht3x_read_status_register the timer is requested
\* by the handler of the write's successful completion and the bus read by the handler
\* of that timer's expiry, and the timer runs for at least 1 ms.
C10_ReadFollowsTimerExpiry ==
    /\ \A r \in BagToSet(pending) :
           r.seq.op \in WriteTimerReadOps =>
               /\ r.seq.steps \in {<<"i2c_write">>, <<"i2c_write", "start_timer">>,
                                   <<"i2c_write", "start_timer", "i2c_read">>}
               /\ r.fn = "start_timer" => r.arg >= SHT3X_MIN_DELAY_BETWEEN_TWO_I2C_CMDS_MS
               /\ r.fn = "i2c_read" => r.seq.delay >= SHT3X_MIN_DELAY_BETWEEN_TWO_I2C_CMDS_MS
    /\ (last.seq.op \in WriteTimerReadOps /\ last.event \in CompletionEvents) =>
           \A i \in DOMAIN last.calls :
               /\ last.calls[i].fn = "start_timer" =>
                      /\ last.event = "i2c_write_complete"
                      /\ last.result_code = <<SHT3X_I2C_RESULT_CODE_OK>>
               /\ last.calls[i].fn = "i2c_read" =>
                      /\ last.event = "timer_expired"
                      /\ last.seq.delay >= SHT3X_MIN_DELAY_BETWEEN_TWO_I2C_CMDS_MS

\* A timer of a periodic read has expired and its handler has requested the bus read.
C10_Witness ==
    /\ last.event = "timer_expired"
    /\ last.seq.op = "sht3x_read_periodic_measurement"
    /\ \E r \in BagToSet(pending) :
           /\ r.fn = "i2c_read"
           /\ r.seq.steps = <<"i2c_write", "start_timer", "i2c_read">>
           /\ r.seq.delay = SHT3X_MIN_DELAY_BETWEEN_TWO_I2C_CMDS_MS

\* C11: in a sequence started by sht3x_read_single_shot_measurement, the handler of the
\* command write's successful completion requests one timer and nothing else, of 1 ms
\* when the call enabled clock stretching (whatever the repeatability) and of 16, 7 or
\* 5 ms for high, medium or low repeatability when it disabled clock stretching.
C11_SingleShotTimerPeriod ==
    (/\ last.event = "i2c_write_complete"
     /\ last.seq.op = "sht3x_read_single_shot_measurement"
     /\ last.result_code = <<SHT3X_I2C_RESULT_CODE_OK>>) =>
        /\ Len(last.calls) = 1
        /\ last.calls[1].fn = "start_timer"
        /\ last.calls[1].duration_ms =
               IF last.seq.args.clock_stretching = SHT3X_CLOCK_STRETCHING_ENABLED THEN 1
               ELSE IF last.seq.args.repeatability = SHT3X_MEAS_REPEATABILITY_HIGH THEN 16
               ELSE IF last.seq.args.repeatability = SHT3X_MEAS_REPEATABILITY_MEDIUM THEN 7
               ELSE 5

ReadOps == {"sht3x_read_measurement", "sht3x_read_single_shot_measurement",
            "sht3x_read_periodic_measurement"}

\* C12: a call of sht3x_read_measurement, sht3x_read_single_shot_measurement or
\* sht3x_read_periodic_measurement (with valid repeatability and clock stretching)
\* returns INVALID_ARG exactly when its flags set neither READ_TEMP nor READ_HUM, or
\* VERIFY_CRC_TEMP without READ_TEMP, or VERIFY_CRC_HUM without READ_HUM, for each of the
\* 16 values of the four flags; a rejected call invokes no callback, requests no bus
\* write, bus read or timer, and leaves the instance as it was.
C12_InvalidFlagsRejected ==
    [][(last'.event = "call" /\ last'.fn \in ReadOps) =>
           LET flags == last'.seq.args.flags
               temp == (flags \div 1) % 2 = 1
               hum == (flags \div 2) % 2 = 1
               crc_temp == (flags \div 4) % 2 = 1
               crc_hum == (flags \div 8) % 2 = 1
               invalid == (~temp /\ ~hum) \/ (crc_temp /\ ~temp) \/ (crc_hum /\ ~hum)
           IN  /\ (last'.ret = <<SHT3X_RESULT_CODE_INVALID_ARG>>) <=> invalid
               /\ invalid => /\ last'.calls = <<>>
                             /\ self' = self
                             /\ pending' = pending]_vars

\* sht3x_read_single_shot_measurement has been called with the flags READ_HUM and
\* VERIFY_CRC_TEMP and has returned INVALID_ARG.
C12_Witness ==
    /\ last.event = "call"
    /\ last.fn = "sht3x_read_single_shot_measurement"
    /\ last.seq.args.flags = SHT3X_FLAG_READ_HUM + SHT3X_FLAG_VERIFY_CRC_TEMP
    /\ last.ret = <<SHT3X_RESULT_CODE_INVALID_ARG>>
    /\ pending = EmptyBag

\* C13: the bus read of a sequence started by sht3x_read_measurement,
\* sht3x_read_single_shot_measurement or sht3x_read_periodic_measurement asks for a
\* number of bytes that the flags of the call decide, the same in all three: temperature
\* only 2; temperature with its CRC 3; humidity only 5; humidity with its CRC 6;
\* temperature and humidity without CRC 5; both with the temperature CRC only 5; both
\* with the humidity CRC only 6; both with both CRCs 6.
C13_ReadLengthByFlags ==
    \A r \in BagToSet(pending) :
        (r.fn = "i2c_read" /\ r.seq.op \in ReadOps) =>
            LET flags == r.seq.args.flags
                T == SHT3X_FLAG_READ_TEMP
                H == SHT3X_FLAG_READ_HUM
                CT == SHT3X_FLAG_VERIFY_CRC_TEMP
                CH == SHT3X_FLAG_VERIFY_CRC_HUM
            IN  \/ flags = T /\ r.arg = 2
                \/ flags = T + CT /\ r.arg = 3
                \/ flags = H /\ r.arg = 5
                \/ flags = H + CH /\ r.arg = 6
                \/ flags = T + H /\ r.arg = 5
                \/ flags = T + H + CT /\ r.arg = 5
                \/ flags = T + H + CH /\ r.arg = 6
                \/ flags = T + H + CT + CH /\ r.arg = 6

\* C14 as the specification states it: the flag-to-byte-count map yields temperature
\* only without check 2, temperature only with check 3, humidity only without check 3,
\* humidity only with check 4, both without check 4, both with temperature check only 5,
\* both with humidity check only 5, both with both checks 6, and 0 for an invalid flag
\* combination.
C14_ByteCountOfRequestedFields ==
    (last.event = "call" /\ last.fn \in ReadOps) =>
        LET flags == last.seq.args.flags
            num_bytes == map_read_meas_flags_to_num_bytes_to_read(flags)
            T == SHT3X_FLAG_READ_TEMP
            H == SHT3X_FLAG_READ_HUM
            CT == SHT3X_FLAG_VERIFY_CRC_TEMP
            CH == SHT3X_FLAG_VERIFY_CRC_HUM
        IN  num_bytes = CASE flags = T -> 2
                          [] flags = T + CT -> 3
                          [] flags = H -> 3
                          [] flags = H + CH -> 4
                          [] flags = T + H -> 4
                          [] flags = T + H + CT -> 5
                          [] flags = T + H + CH -> 5
                          [] flags = T + H + CT + CH -> 6
                          [] OTHER -> 0

\* C14, amended: the flag-to-byte-count map yields temperature only without check 2,
\* temperature only with check 3, humidity only without check 5, humidity only with
\* check 6, both without check 5, both with temperature check only 5, both with
\* humidity check only 6, both with both checks 6, and 0 for an invalid flag
\* combination: the count reaches from the first byte of the frame to the last byte
\* requested.
C14_ByteCountOfFramePrefix ==
    (last.event = "call" /\ last.fn \in ReadOps) =>
        LET flags == last.seq.args.flags
            num_bytes == map_read_meas_flags_to_num_bytes_to_read(flags)
            T == SHT3X_FLAG_READ_TEMP
            H == SHT3X_FLAG_READ_HUM
            CT == SHT3X_FLAG_VERIFY_CRC_TEMP
            CH == SHT3X_FLAG_VERIFY_CRC_HUM
        IN  /\ num_bytes = CASE flags = T -> 2
                             [] flags = T + CT -> 3
                             [] flags = H -> 5
                             [] flags = H + CH -> 6
                             [] flags = T + H -> 5
                             [] flags = T + H + CT -> 5
                             [] flags = T + H + CH -> 6
                             [] flags = T + H + CT + CH -> 6
                             [] OTHER -> 0
            /\ last.ret = <<SHT3X_RESULT_CODE_OK>> =>
                   \A i \in DOMAIN last.calls :
                       last.calls[i].fn = "i2c_read" => last.calls[i].length = num_bytes

\* sht3x_read_measurement has been called with READ_HUM alone and has requested a bus
\* read of 5 bytes.
C14_Witness ==
    /\ last.event = "call"
    /\ last.fn = "sht3x_read_measurement"
    /\ last.seq.args.flags = SHT3X_FLAG_READ_HUM
    /\ last.ret = <<SHT3X_RESULT_CODE_OK>>
    /\ Len(last.calls) = 1
    /\ last.calls[1].fn = "i2c_read"
    /\ last.calls[1].length = 5

\* C15: when the measurement read of a sequence completes with OK and a CRC check the
\* call asked for fails on the bytes received (temperature: CRC of bytes 0-1 against
\* byte 2; humidity: CRC of bytes 3-4 against byte 5), the sequence's callback, if
\* non-null, is invoked once, with CRC_MISMATCH and a NULL measurement; a callback gets
\* a measurement only with OK, after a read that completed with OK, and when every CRC
\* check the call asked for matched.
C15_CrcMismatchDeliversNothing ==
    (last.event = "i2c_read_complete" /\ last.fn = "meas_i2c_complete_cb") =>
        LET flags == last.seq.args.flags
            buf == self.i2c_read_buf
            temp_crc_bad == /\ FlagSet(flags, SHT3X_FLAG_VERIFY_CRC_TEMP)
                            /\ sht3x_crc8(buf, 1) # buf[3]
            hum_crc_bad == /\ FlagSet(flags, SHT3X_FLAG_VERIFY_CRC_HUM)
                           /\ sht3x_crc8(buf, 4) # buf[6]
            ucs == UserCbCalls(last.calls)
        IN  /\ (last.result_code = <<SHT3X_I2C_RESULT_CODE_OK>> /\ (temp_crc_bad \/ hum_crc_bad)) =>
                   /\ last.seq.cb # NULL => Len(ucs) = 1
                   /\ \A i \in DOMAIN ucs :
                          /\ ucs[i].result_code = SHT3X_RESULT_CODE_CRC_MISMATCH
                          /\ ucs[i].meas = <<>>
            /\ \A i \in DOMAIN ucs :
                   ucs[i].meas # <<>> =>
                       /\ ucs[i].result_code = SHT3X_RESULT_CODE_OK
                       /\ last.result_code = <<SHT3X_I2C_RESULT_CODE_OK>>
                       /\ ~temp_crc_bad
                       /\ ~hum_crc_bad

\* C16: for each of the 6 pairs of repeatability and clock stretching,
\* sht3x_send_single_shot_measurement_cmd returns OK, and it and an accepted
\* sht3x_read_single_shot_measurement make one bus write, of exactly the 2 bytes:
\* disabled/high {0x24,0x00}, disabled/medium {0x24,0x0B}, disabled/low {0x24,0x16},
\* enabled/high {0x2C,0x06}, enabled/medium {0x2C,0x0D}, enabled/low {0x2C,0x10}.
C16_SingleShotCommandCode ==
    (/\ last.event = "call"
     /\ last.fn \in {"sht3x_send_single_shot_measurement_cmd", "sht3x_read_single_shot_measurement"}) =>
        LET repeatability == last.seq.args.repeatability
            clock_stretching == last.seq.args.clock_stretching
            code == IF clock_stretching = SHT3X_CLOCK_STRETCHING_DISABLED
                        THEN CASE repeatability = SHT3X_MEAS_REPEATABILITY_HIGH -> <<36, 0>>
                               [] repeatability = SHT3X_MEAS_REPEATABILITY_MEDIUM -> <<36, 11>>
                               [] repeatability = SHT3X_MEAS_REPEATABILITY_LOW -> <<36, 22>>
                        ELSE CASE repeatability = SHT3X_MEAS_REPEATABILITY_HIGH -> <<44, 6>>
                               [] repeatability = SHT3X_MEAS_REPEATABILITY_MEDIUM -> <<44, 13>>
                               [] repeatability = SHT3X_MEAS_REPEATABILITY_LOW -> <<44, 16>>
        IN  /\ last.fn = "sht3x_send_single_shot_measurement_cmd" =>
                   last.ret = <<SHT3X_RESULT_CODE_OK>>
            /\ last.ret = <<SHT3X_RESULT_CODE_OK>> =>
                   /\ Len(last.calls) = 1
                   /\ last.calls[1].fn = "i2c_write"
                   /\ last.calls[1].data = code
                   /\ last.calls[1].length = 2

\* sht3x_read_single_shot_measurement has been called with medium repeatability and
\* clock stretching enabled and has written {0x2C, 0x0D}.
C16_Witness ==
    /\ last.event = "call"
    /\ last.fn = "sht3x_read_single_shot_measurement"
    /\ last.seq.args.repeatability = SHT3X_MEAS_REPEATABILITY_MEDIUM
    /\ last.seq.args.clock_stretching = SHT3X_CLOCK_STRETCHING_ENABLED
    /\ last.ret = <<SHT3X_RESULT_CODE_OK>>
    /\ last.calls[1].fn = "i2c_write"
    /\ last.calls[1].data = <<44, 13>>

\* C17: for each of the 15 pairs of repeatability and measurements per second,
\* sht3x_start_periodic_measurement returns OK and makes one bus write, of exactly the
\* 2 bytes of the table: 0.5 mps {0x20, 0x32/0x24/0x2F}, 1 mps {0x21, 0x30/0x26/0x2D},
\* 2 mps {0x22, 0x36/0x20/0x2B}, 4 mps {0x23, 0x34/0x22/0x29}, 10 mps
\* {0x27, 0x37/0x21/0x2A} for high/medium/low repeatability.
C17_StartPeriodicCommandCode ==
    (last.event = "call" /\ last.fn = "sht3x_start_periodic_measurement") =>
        LET mps == last.seq.args.mps
            row == CASE mps = SHT3X_MPS_0_5 -> <<32, 50, 36, 47>>
                     [] mps = SHT3X_MPS_1 -> <<33, 48, 38, 45>>
                     [] mps = SHT3X_MPS_2 -> <<34, 54, 32, 43>>
                     [] mps = SHT3X_MPS_4 -> <<35, 52, 34, 41>>
                     [] mps = SHT3X_MPS_10 -> <<39, 55, 33, 42>>
            column == CASE last.seq.args.repeatability = SHT3X_MEAS_REPEATABILITY_HIGH -> 2
                        [] last.seq.args.repeatability = SHT3X_MEAS_REPEATABILITY_MEDIUM -> 3
                        [] last.seq.args.repeatability = SHT3X_MEAS_REPEATABILITY_LOW -> 4
        IN  /\ last.ret = <<SHT3X_RESULT_CODE_OK>>
            /\ Len(last.calls) = 1
            /\ last.calls[1].fn = "i2c_write"
            /\ last.calls[1].data = <<row[1], row[column]>>
            /\ last.calls[1].length = 2

\* sht3x_start_periodic_measurement has been called with low repeatability and 4
\* measurements per second and has written {0x23, 0x29}.
C17_Witness ==
    /\ last.event = "call"
    /\ last.fn = "sht3x_start_periodic_measurement"
    /\ last.seq.args.repeatability = SHT3X_MEAS_REPEATABILITY_LOW
    /\ last.seq.args.mps = SHT3X_MPS_4
    /\ last.calls[1].fn = "i2c_write"
    /\ last.calls[1].data = <<35, 41>>

\* C18: each operation with a fixed code returns OK and makes one bus write, of exactly
\* its 2 bytes, most significant byte first: accelerated response time start
\* {0x2B,0x32}, fetch periodic data {0xE0,0x00}, stop periodic {0x30,0x93}, soft reset
\* and soft reset with delay {0x30,0xA2}, enable heater {0x30,0x6D}, disable heater
\* {0x30,0x66}, read status register command {0xF3,0x2D}, clear status register
\* {0x30,0x41}.
C18_FixedCommandCode ==
    (last.event = "call" /\ last.fn \in FixedCodeOps) =>
        /\ last.ret = <<SHT3X_RESULT_CODE_OK>>
        /\ Len(last.calls) = 1
        /\ last.calls[1].fn = "i2c_write"
        /\ last.calls[1].length = 2
        /\ last.calls[1].data =
               CASE last.fn = "sht3x_start_periodic_measurement_art" -> <<43, 50>>
                 [] last.fn = "sht3x_fetch_periodic_measurement_data" -> <<224, 0>>
                 [] last.fn = "sht3x_stop_periodic_measurement" -> <<48, 147>>
                 [] last.fn = "sht3x_soft_reset" -> <<48, 162>>
                 [] last.fn = "sht3x_soft_reset_with_delay" -> <<48, 162>>
                 [] last.fn = "sht3x_enable_heater" -> <<48, 109>>
                 [] last.fn = "sht3x_disable_heater" -> <<48, 102>>
                 [] last.fn = "sht3x_send_read_status_register_cmd" -> <<243, 45>>
                 [] last.fn = "sht3x_clear_status_register" -> <<48, 65>>

\* sht3x_soft_reset_with_delay has been called and has written {0x30, 0xA2}.
C18_Witness ==
    /\ last.event = "call"
    /\ last.fn = "sht3x_soft_reset_with_delay"
    /\ last.calls[1].fn = "i2c_write"
    /\ last.calls[1].data = <<48, 162>>
    /\ \E r \in BagToSet(pending) : r.fn = "i2c_write" /\ r.cb = "soft_reset_with_delay_part_2"

\* The public functions whose sequence is one command write.
CommandOnlyOps == {"sht3x_send_single_shot_measurement_cmd", "sht3x_start_periodic_measurement",
                   "sht3x_start_periodic_measurement_art", "sht3x_fetch_periodic_measurement_data",
                   "sht3x_stop_periodic_measurement", "sht3x_soft_reset", "sht3x_enable_heater",
                   "sht3x_disable_heater", "sht3x_send_read_status_register_cmd",
                   "sht3x_clear_status_register"}

\* C19: a sequence started by a command-only operation requests its bus write and never
\* a timer or a bus read; the completion of the write is its terminal step, at which
\* the sequence's callback, if non-null, is invoked once, with OK when the bus result is
\* OK and with IO_ERR when it is ADDRESS_NACK or BUS_ERROR.
C19_CommandOnlyEndsAtWriteCompletion ==
    /\ \A r \in BagToSet(pending) :
           r.seq.op \in CommandOnlyOps => r.fn = "i2c_write" /\ r.seq.steps = <<"i2c_write">>
    /\ (last.event \in CompletionEvents /\ last.seq.op \in CommandOnlyOps) =>
           LET ucs == UserCbCalls(last.calls)
           IN  /\ last.event = "i2c_write_complete"
               /\ HookCalls(last.calls) = <<>>
               /\ last.seq.cb # NULL => Len(ucs) = 1
               /\ \A i \in DOMAIN ucs :
                      ucs[i].result_code =
                          IF last.result_code = <<SHT3X_I2C_RESULT_CODE_OK>>
                              THEN SHT3X_RESULT_CODE_OK
                              ELSE SHT3X_RESULT_CODE_IO_ERR

\* C20: in a sequence started by sht3x_soft_reset_with_delay, the handler of the write's
\* completion with OK requests a timer of 2 ms and invokes no callback, and the handler
\* of the timer's expiry invokes the sequence's callback, if non-null, once, with OK; the
\* handler of the write's completion with another result requests no timer and invokes
\* the sequence's callback, if non-null, once, with IO_ERR.
C20_SoftResetWithDelay ==
    (last.event \in CompletionEvents /\ last.seq.op = "sht3x_soft_reset_with_delay") =>
        LET ucs == UserCbCalls(last.calls)
            hooks == HookCalls(last.calls)
        IN  IF last.event = "i2c_write_complete" /\ last.result_code = <<SHT3X_I2C_RESULT_CODE_OK>>
                THEN /\ ucs = <<>>
                     /\ Len(hooks) = 1
                     /\ hooks[1].fn = "start_timer"
                     /\ hooks[1].duration_ms = 2
            ELSE IF last.event = "i2c_write_complete"
                THEN /\ hooks = <<>>
                     /\ last.seq.cb # NULL => Len(ucs) = 1
                     /\ \A i \in DOMAIN ucs : ucs[i].result_code = SHT3X_RESULT_CODE_IO_ERR
            ELSE /\ last.event = "timer_expired"
                 /\ last.seq.delay = 2
                 /\ hooks = <<>>
                 /\ last.seq.cb # NULL => Len(ucs) = 1
                 /\ \A i \in DOMAIN ucs : ucs[i].result_code = SHT3X_RESULT_CODE_OK

\* C21: sht3x_create returns INVALID_ARG when the instance out-pointer or
\* the configuration is null, when any of get_instance_memory, i2c_write,
\* i2c_read and start_timer is null, or when i2c_addr is neither 0x44 nor
\* 0x45, and then does not invoke get_instance_memory; a valid configuration
\* is not rejected, and gives OK with 0x44 and with 0x45 once the factory
\* hook has returned memory.
C21_CreateRejectsInvalidConfig ==
    (last.event = "call" /\ last.fn = "sht3x_create") =>
        LET a == last.seq.args
            invalid == \/ a.instance = NULL
                       \/ a.cfg.cfg = NULL
                       \/ a.cfg.get_instance_memory = NULL
                       \/ a.cfg.i2c_write = NULL
                       \/ a.cfg.i2c_read = NULL
                       \/ a.cfg.start_timer = NULL
                       \/ a.cfg.i2c_addr \notin {68, 69}
        IN  /\ invalid => (last.ret = <<SHT3X_RESULT_CODE_INVALID_ARG>> /\ last.calls = <<>>)
            /\ ~invalid => last.ret # <<SHT3X_RESULT_CODE_INVALID_ARG>>
            /\ (~invalid /\ a.instance_memory # NULL) => last.ret = <<SHT3X_RESULT_CODE_OK>>

\* sht3x_create has rejected a configuration whose only fault is a null start_timer.
C21_Witness ==
    /\ last.event = "call" /\ last.fn = "sht3x_create"
    /\ last.seq.args.instance # NULL
    /\ last.seq.args.cfg.cfg # NULL
    /\ last.seq.args.cfg.get_instance_memory # NULL
    /\ last.seq.args.cfg.i2c_write # NULL
    /\ last.seq.args.cfg.i2c_read # NULL
    /\ last.seq.args.cfg.start_timer = NULL
    /\ last.seq.args.cfg.i2c_addr = 69
    /\ last.ret = <<SHT3X_RESULT_CODE_INVALID_ARG>>
    /\ last.calls = <<>>

\* C22: sht3x_create with a non-null out-pointer and a valid configuration
\* invokes get_instance_memory exactly once, with the configuration's
\* get_instance_memory_user_data, and returns OUT_OF_MEMORY exactly when the
\* hook returns null.
C22_CreateAsksForMemoryOnce ==
    (/\ last.event = "call" /\ last.fn = "sht3x_create"
     /\ last.seq.args.instance # NULL
     /\ is_valid_cfg(last.seq.args.cfg)) =>
        /\ last.calls = <<[fn |-> "get_instance_memory",
                           cb |-> last.seq.args.cfg.get_instance_memory,
                           user_data |-> last.seq.args.cfg.get_instance_memory_user_data]>>
        /\ (last.ret = <<SHT3X_RESULT_CODE_OUT_OF_MEMORY>>) <=> (last.seq.args.instance_memory = NULL)

\* The factory hook, asked with user data 0x42, returned null and sht3x_create OUT_OF_MEMORY.
C22_Witness ==
    /\ last.event = "call" /\ last.fn = "sht3x_create"
    /\ last.seq.args.instance # NULL
    /\ is_valid_cfg(last.seq.args.cfg)
    /\ last.seq.args.cfg.get_instance_memory_user_data = 66
    /\ last.seq.args.instance_memory = NULL
    /\ Len(last.calls) = 1
    /\ last.ret = <<SHT3X_RESULT_CODE_OUT_OF_MEMORY>>

\* C23: every public operation, sht3x_destroy included, called with a null
\* instance returns INVALID_ARG and invokes no user callback, no bus or timer
\* hook and no free hook.
C23_NullSelfRejected ==
    (/\ last.event = "call"
     /\ last.fn # "sht3x_create"
     /\ last.seq.args.self = NULL) =>
        /\ last.ret = <<SHT3X_RESULT_CODE_INVALID_ARG>>
        /\ last.calls = <<>>

\* C24: sht3x_send_single_shot_measurement_cmd, sht3x_read_single_shot_measurement
\* and sht3x_start_periodic_measurement return INVALID_ARG for every repeatability
\* byte other than high, medium and low, for every clock stretching byte other
\* than enabled and disabled, and for every measurements-per-second byte other
\* than the five rates; the rejected call requests no bus write (nor any other
\* hook), invokes no callback, and leaves the instance as it was.
C24_InvalidOptionsRejected ==
    [][(last'.event = "call") =>
           LET a == last'.seq.args
               bad_repeatability ==
                   a.repeatability \notin {SHT3X_MEAS_REPEATABILITY_HIGH,
                                           SHT3X_MEAS_REPEATABILITY_MEDIUM,
                                           SHT3X_MEAS_REPEATABILITY_LOW}
               bad_option ==
                   IF last'.fn = "sht3x_start_periodic_measurement"
                       THEN a.mps \notin {SHT3X_MPS_0_5, SHT3X_MPS_1, SHT3X_MPS_2,
                                          SHT3X_MPS_4, SHT3X_MPS_10}
                       ELSE a.clock_stretching \notin {SHT3X_CLOCK_STRETCHING_ENABLED,
                                                       SHT3X_CLOCK_STRETCHING_DISABLED}
           IN  (bad_repeatability \/ bad_option) =>
                   /\ last'.ret = <<SHT3X_RESULT_CODE_INVALID_ARG>>
                   /\ last'.calls = <<>>
                   /\ self' = self
                   /\ pending' = pending]_vars

\* sht3x_start_periodic_measurement has been called with the byte after the
\* last rate and has returned INVALID_ARG.
C24_Witness ==
    /\ last.event = "call"
    /\ last.fn = "sht3x_start_periodic_measurement"
    /\ last.seq.args.repeatability = SHT3X_MEAS_REPEATABILITY_HIGH
    /\ last.seq.args.mps = SHT3X_MPS_10 + 1
    /\ last.ret = <<SHT3X_RESULT_CODE_INVALID_ARG>>
    /\ pending = EmptyBag

(***************************************************************************)
(* Reading in one call and in two. sht3x.h describes                       *)
(* sht3x_read_single_shot_measurement and sht3x_read_periodic_measurement  *)
(* as equivalent to a command function, a wait, and                        *)
(* sht3x_read_measurement. The sequence of the one call runs under         *)
(* ArgSpec; at each of its steps ReadInTwoCalls gives what the two calls   *)
(* do at that point on the same input: the command function on the call,   *)
(* its completion handler on the result of the write, the call of          *)
(* sht3x_read_measurement once the wait is over, and its completion        *)
(* handler on the result and the bytes of the read. The user of the two    *)
(* calls goes on to the second when the callback of the first reports OK.  *)
(***************************************************************************)
\* The bus requests among calls, without the continuation the driver registered.
BusRequests(calls) ==
    LET IsBusCall(c) == c.fn \in {"i2c_write", "i2c_read"}
        bus == SelectSeq(calls, IsBusCall)
    IN  [i \in DOMAIN bus |-> [bus[i] EXCEPT !.cb = "continuation"]]

\* The result code and measurement of each user callback among calls.
Results(calls) ==
    LET cbs == UserCbCalls(calls)
    IN  [i \in DOMAIN cbs |-> <<cbs[i].result_code, cbs[i].meas>>]

\* first is what the command function of the first call did.
ReadInTwoCalls(first) ==
    LET read == sht3x_read_measurement(InstancePtr, last.seq.args.flags,
                                       last.seq.cb, last.seq.user_data)
        received == [read.mem EXCEPT !.i2c_read_buf = self.i2c_read_buf]
        calls == CASE last.event = "call" -> first.calls
                   [] last.event = "i2c_write_complete" ->
                          generic_i2c_complete_cb(first.mem, last.result_code[1]).calls
                   [] last.event = "timer_expired" -> read.calls
                   [] last.event = "i2c_read_complete" ->
                          meas_i2c_complete_cb(received, last.result_code[1]).calls
    IN  [bus |-> BusRequests(calls), result |-> Results(calls)]

C26_PeriodicReadInTwoCalls ==
    (/\ last.seq.op = "sht3x_read_periodic_measurement"
     /\ last.event = "call" => last.ret = <<SHT3X_RESULT_CODE_OK>>) =>
        LET two == ReadInTwoCalls(
                       sht3x_fetch_periodic_measurement_data(
                           InstancePtr,
                           IF last.seq.cb = NULL THEN NULL ELSE "sht3x_complete_cb",
                           last.seq.user_data))
            write_done == last.event = "i2c_write_complete"
            go_on == write_done /\ last.result_code = <<SHT3X_I2C_RESULT_CODE_OK>>
            read_nack == /\ last.event = "i2c_read_complete"
                         /\ last.result_code = <<SHT3X_I2C_RESULT_CODE_ADDRESS_NACK>>
        IN  /\ BusRequests(last.calls) = two.bus
            /\ ~write_done => Results(last.calls) = two.result
            /\ last.event = "call" =>
                   /\ Len(last.calls) = 1
                   /\ last.calls[1].fn = "i2c_write"
                   /\ last.calls[1].data = <<224, 0>>
            /\ go_on => last.calls = <<StartTimerCall(1, "read_periodic_measurement_part_3")>>
            /\ last.event = "timer_expired" =>
                   /\ Len(last.calls) = 1
                   /\ last.calls[1].fn = "i2c_read"
            /\ (read_nack /\ last.seq.cb # NULL) =>
                   Results(last.calls) = <<<<SHT3X_RESULT_CODE_NO_DATA, <<>>>>>>

\* The read of a periodic sequence with a callback has ended with the
\* address not acknowledged, after the write, the timer and the read.
C26_Witness ==
    /\ last.seq.op = "sht3x_read_periodic_measurement"
    /\ last.seq.cb # NULL
    /\ last.seq.steps = <<"i2c_write", "start_timer", "i2c_read">>
    /\ last.event = "i2c_read_complete"
    /\ last.result_code = <<SHT3X_I2C_RESULT_CODE_ADDRESS_NACK>>
    /\ Len(last.calls) = 1
    /\ last.calls[1].result_code = SHT3X_RESULT_CODE_NO_DATA

\* C27: sht3x_read_status_register writes the command {0xF3, 0x2D}; when the
\* write succeeds it requests a timer of 1 ms, and on its expiry a read of 2
\* bytes without checksum verification or of 3 bytes with it; when the write
\* fails it delivers IO_ERR and requests neither timer nor read.
C27_ReadStatusRegisterSteps ==
    (last.seq.op = "sht3x_read_status_register") =>
        /\ (last.event = "call" /\ last.ret = <<SHT3X_RESULT_CODE_OK>>) =>
               /\ Len(last.calls) = 1
               /\ last.calls[1].fn = "i2c_write"
               /\ last.calls[1].data = <<243, 45>>
               /\ last.calls[1].length = 2
        /\ (last.event = "i2c_write_complete"
                /\ last.result_code = <<SHT3X_I2C_RESULT_CODE_OK>>) =>
               /\ Len(last.calls) = 1
               /\ last.calls[1].fn = "start_timer"
               /\ last.calls[1].duration_ms = 1
        /\ (last.event = "i2c_write_complete"
                /\ last.result_code # <<SHT3X_I2C_RESULT_CODE_OK>>) =>
               /\ HookCalls(last.calls) = <<>>
               /\ pending = EmptyBag
               /\ last.seq.cb # NULL =>
                      /\ Len(last.calls) = 1
                      /\ last.calls[1].cb = last.seq.cb
                      /\ last.calls[1].result_code = SHT3X_RESULT_CODE_IO_ERR
        /\ last.event = "timer_expired" =>
               /\ last.seq.steps = <<"i2c_write", "start_timer">>
               /\ Len(last.calls) = 1
               /\ last.calls[1].fn = "i2c_read"
               /\ last.calls[1].length = (IF last.seq.args.verify_crc THEN 3 ELSE 2)

\* The timer of a status register sequence without checksum verification has
\* expired and the read of 2 bytes is requested.
C27_Witness ==
    /\ last.seq.op = "sht3x_read_status_register"
    /\ ~last.seq.args.verify_crc
    /\ last.event = "timer_expired"
    /\ \E r \in BagToSet(pending) : r.fn = "i2c_read" /\ r.arg = 2

\* C28: when the read of the status register completes, the callback gets
\* IO_ERR for every bus failure, the address not acknowledged included (never
\* NO_DATA); CRC_MISMATCH when verification was asked for and the CRC-8 of
\* bytes 0 and 1 is not byte 2; OK with reg_val = byte 0 * 256 + byte 1
\* otherwise.
C28_ReadStatusRegisterResult ==
    (/\ last.seq.op = "sht3x_read_status_register"
     /\ last.event = "i2c_read_complete"
     /\ last.seq.cb # NULL) =>
        LET buf == self.i2c_read_buf
            ok == last.result_code = <<SHT3X_I2C_RESULT_CODE_OK>>
            mismatch == last.seq.args.verify_crc /\ sht3x_crc8(buf, 1) # buf[3]
        IN  /\ Len(last.calls) = 1
            /\ last.calls[1].fn = "user_cb"
            /\ last.calls[1].cb = last.seq.cb
            /\ ~ok => last.calls[1].result_code = SHT3X_RESULT_CODE_IO_ERR
            /\ (ok /\ mismatch) => last.calls[1].result_code = SHT3X_RESULT_CODE_CRC_MISMATCH
            /\ (ok /\ ~mismatch) =>
                   /\ last.calls[1].result_code = SHT3X_RESULT_CODE_OK
                   /\ last.calls[1].reg_val = buf[1] * 256 + buf[2]

\* The read of a status register sequence with checksum verification has
\* delivered CRC_MISMATCH for a frame whose third byte is not the checksum.
C28_Witness ==
    /\ last.seq.op = "sht3x_read_status_register"
    /\ last.seq.args.verify_crc
    /\ last.event = "i2c_read_complete"
    /\ last.result_code = <<SHT3X_I2C_RESULT_CODE_OK>>
    /\ self.i2c_read_buf[3] = BadFrame[3]
    /\ Len(last.calls) = 1
    /\ last.calls[1].result_code = SHT3X_RESULT_CODE_CRC_MISMATCH

\* C29: sht3x_crc8 over any 2 bytes is the CRC-8 with polynomial 0x31 and
\* initial value 0xFF, most significant bit first, without reflection and
\* without final XOR, 8 bits wide throughout: the remainder of the division
\* of the 2 bytes, the first XORed with 0xFF, followed by 8 zero bits, by
\* x^8 + x^5 + x^4 + 1 over GF(2). The CRC of {0x62, 0x60} is 0xB6.
C29_Crc8 ==
    (last.fn = "sht3x_crc8") =>
        LET buf == self.i2c_read_buf
            \* v with the bit of weight w inverted
            Flip(v, w) == IF (v \div w) % 2 = 1 THEN v - w ELSE v + w
            RECURSIVE Remainder(_, _)
            \* w is the weight of the bit to clear: the divisor 0x131 is
            \* subtracted with its top bit at w
            Remainder(v, w) ==
                IF w < 256 THEN v
                ELSE Remainder(IF (v \div w) % 2 = 1
                                   THEN Flip(Flip(Flip(Flip(v, w), w \div 8), w \div 16),
                                             w \div 256)
                                   ELSE v,
                               w \div 2)
            Crc(b0, b1) == Remainder(((255 - b0) * 256 + b1) * 256, 8388608)
        IN  /\ last.ret = <<Crc(buf[1], buf[2]), Crc(buf[4], buf[5])>>
            /\ (buf[1] = 98 /\ buf[2] = 96) => last.ret[1] = 182

\* sht3x_crc8 has been applied to {0x62, 0x60} and has given 0xB6.
C29_Witness ==
    /\ last.fn = "sht3x_crc8"
    /\ self.i2c_read_buf[1] = 98
    /\ self.i2c_read_buf[2] = 96
    /\ last.ret[1] = 182

C31_StatusPredicatesReadOneBit ==
    last.fn = "sht3x_is" =>
        LET msb == self.i2c_read_buf[1]
            lsb == self.i2c_read_buf[2]
            Set(byte, mask) == BitAnd(byte, mask) # 0
        IN  /\ (last.ret[1] = 1) <=> ~Set(lsb, 1)
            /\ (last.ret[2] = 1) <=> ~Set(lsb, 2)
            /\ (last.ret[3] = 1) <=> Set(lsb, 16)
            /\ (last.ret[4] = 1) <=> Set(msb, 4)
            /\ (last.ret[5] = 1) <=> Set(msb, 8)
            /\ (last.ret[6] = 1) <=> Set(msb, 32)
            /\ (last.ret[7] = 1) <=> Set(msb, 128)

\* The predicates applied to 0x2000 (test IsHeaterOnTrue): only the heater
\* bit is set, so the two active-low predicates and heater-on are true.
C31_Witness ==
    /\ last.fn = "sht3x_is"
    /\ self.i2c_read_buf[1] = 32
    /\ self.i2c_read_buf[2] = 0
    /\ last.ret = <<1, 1, 0, 0, 0, 1, 0>>

(***************************************************************************)
(* C32: every call the driver makes to the i2c_write hook passes as        *)
(* user_data the i2c_write_user_data of the config given to sht3x_create,  *)
(* and every call to the i2c_read hook passes the config's                 *)
(* i2c_read_user_data; the driver's own continuation and the instance are  *)
(* passed separately, as cb and cb_user_data. The config of the tests has  *)
(* i2c_write_user_data 0x42 and i2c_read_user_data 0xF5                    *)
(* (test/sht3x.cpp:15-16).                                                 *)
(***************************************************************************)
C32_HooksGetConfigUserData ==
    \A i \in DOMAIN last.calls :
        LET call == last.calls[i]
            cfg_user_data == [i2c_write |-> 66, i2c_read |-> 245]
        IN  call.fn \in {"i2c_write", "i2c_read"} =>
                /\ call.cb # NULL
                /\ call.cb_user_data = InstancePtr
                /\ "user_data" \in DOMAIN call
                /\ call.user_data = cfg_user_data[call.fn]

(***************************************************************************)
(* C33: for every public operation that is accepted, the first bus         *)
(* operation the driver issues is a write of exactly 2 bytes to the        *)
(* instance's configured address. The first bus operation of a sequence is *)
(* the one its public function requests before it returns.                 *)
(***************************************************************************)
C33_FirstBusOperationIsWrite ==
    (/\ last.event = "call"
     /\ last.ret = <<SHT3X_RESULT_CODE_OK>>
     /\ BusRequests(last.calls) # <<>>) =>
        LET first == BusRequests(last.calls)[1]
        IN  /\ last.seq.steps = <<>>
            /\ first.fn = "i2c_write"
            /\ first.length = 2
            /\ first.i2c_addr = self.i2c_addr

\* C33 as the code has it: sht3x_read_measurement sends no command, its
\* first and only bus operation is the read of the measurement bytes; every
\* other accepted operation starts with a write of 2 bytes. Either goes to
\* the configured address.
C33_FirstBusOperationIsWriteButReadMeasurement ==
    (/\ last.event = "call"
     /\ last.ret = <<SHT3X_RESULT_CODE_OK>>) =>
        /\ last.seq.steps = <<>>
        /\ Len(last.calls) = 1
        /\ last.calls[1].i2c_addr = self.i2c_addr
        /\ IF last.fn = "sht3x_read_measurement"
               THEN /\ last.calls[1].fn = "i2c_read"
                    /\ last.calls[1].length =
                           map_read_meas_flags_to_num_bytes_to_read(last.seq.args.flags)
                    /\ last.calls[1].length \in 2..SHT3X_I2C_READ_BUF_SIZE
               ELSE /\ last.calls[1].fn = "i2c_write"
                    /\ last.calls[1].length = 2
                    /\ Len(last.calls[1].data) = 2

C33_Witness ==
    /\ last.event = "call"
    /\ last.fn = "sht3x_read_measurement"
    /\ last.ret = <<SHT3X_RESULT_CODE_OK>>
    /\ last.seq.args.flags = SHT3X_FLAG_READ_TEMP
    /\ last.calls[1].fn = "i2c_read"
    /\ last.calls[1].length = 2

(***************************************************************************)
(* C34: in sht3x_read_single_shot_measurement and                          *)
(* sht3x_read_periodic_measurement, the bus read requested on timer expiry *)
(* has the length determined by the flags passed to that call, and its     *)
(* completion is decoded with those same flags, repeatability and sequence *)
(* kind, whatever public operations are called between the start of the    *)
(* sequence and its terminal callback: while a request of such a sequence  *)
(* is outstanding, the instance holds the descriptor that the call stored. *)
(***************************************************************************)
C34_DescriptorKeptForTheSequence ==
    \A r \in BagToSet(pending) :
        r.seq.op \in {"sht3x_read_single_shot_measurement",
                      "sht3x_read_periodic_measurement"} =>
            /\ self.sequence_flags = r.seq.args.flags
            /\ r.fn = "i2c_read" =>
                   r.arg = map_read_meas_flags_to_num_bytes_to_read(r.seq.args.flags)
            /\ IF r.seq.op = "sht3x_read_single_shot_measurement"
                   THEN /\ self.sequence_type = SHT3X_SEQUENCE_TYPE_SINGLE_SHOT_MEAS
                        /\ self.repeatability = r.seq.args.repeatability
                        /\ self.clock_stretching = r.seq.args.clock_stretching
                   ELSE self.sequence_type = SHT3X_SEQUENCE_TYPE_READ_PERIODIC_MEAS

(***************************************************************************)
(* C35: the driver never retries. Each accepted sequence requests at most  *)
(* one bus write, at most one timer and at most one bus read, and after a  *)
(* bus completion with a result other than OK it requests no further bus   *)
(* or timer operation for that sequence.                                   *)
(***************************************************************************)
C35_NoRetry ==
    LET Times(steps, hook) == Cardinality({i \in DOMAIN steps : steps[i] = hook})
        AtMostOnce(steps) == \A hook \in HookNames : Times(steps, hook) <= 1
    IN  /\ \A r \in BagToSet(pending) : AtMostOnce(r.seq.steps)
        /\ (last.event \in CompletionEvents \/ last.event = "call") =>
               /\ AtMostOnce(last.seq.steps)
               /\ \A i \in DOMAIN last.calls :
                      IsHookCall(last.calls[i]) => Times(last.seq.steps, last.calls[i].fn) = 0
               /\ Len(HookCalls(last.calls)) <= 1
        /\ (/\ last.event \in {"i2c_write_complete", "i2c_read_complete"}
            /\ last.result_code # <<SHT3X_I2C_RESULT_CODE_OK>>) =>
               /\ HookCalls(last.calls) = <<>>
               /\ \A r \in BagToSet(pending) : r.seq.user_data # last.seq.user_data

\* The command of a soft reset with delay fails on the bus while another
\* sequence is outstanding: nothing more is requested for the failed one.
C35_Witness ==
    /\ last.event = "i2c_write_complete"
    /\ last.seq.op = "sht3x_soft_reset_with_delay"
    /\ last.result_code = <<SHT3X_I2C_RESULT_CODE_BUS_ERROR>>
    /\ last.seq.steps = <<"i2c_write">>
    /\ HookCalls(last.calls) = <<>>
    /\ pending # EmptyBag

C37_ConfigFixedAtCreation ==
    [][/\ (last'.fn = "sht3x_create" /\ last'.ret = <<SHT3X_RESULT_CODE_OK>>) =>
              LET cfg == last'.seq.args.cfg
              IN  /\ self'.i2c_write = cfg.i2c_write /\ self'.i2c_write # NULL
                  /\ self'.i2c_read = cfg.i2c_read /\ self'.i2c_read # NULL
                  /\ self'.start_timer = cfg.start_timer /\ self'.start_timer # NULL
                  /\ self'.i2c_addr = cfg.i2c_addr /\ self'.i2c_addr \in {68, 69}
       /\ lifecycle = "created" =>
              /\ self'.i2c_write = self.i2c_write
              /\ self'.i2c_read = self.i2c_read
              /\ self'.start_timer = self.start_timer
              /\ self'.i2c_addr = self.i2c_addr
              /\ \A i \in DOMAIN last'.calls :
                     last'.calls[i].fn \in {"i2c_write", "i2c_read"} =>
                         last'.calls[i].i2c_addr = self.i2c_addr]_vars

\* An instance created with address 0x45 reads a measurement from 0x45.
C37_Witness ==
    /\ lifecycle = "created"
    /\ self.i2c_addr = 69
    /\ self.start_timer = "mock_sht3x_start_timer"
    /\ last.event = "timer_expired"
    /\ Len(last.calls) = 1
    /\ last.calls[1].fn = "i2c_read"
    /\ last.calls[1].i2c_addr = 69

(***************************************************************************)
(* C38: the stored completion callback is only ever invoked with the       *)
(* signature it was registered with. When meas_i2c_complete_cb invokes the *)
(* stored callback as a measurement callback, it was stored by a           *)
(* measurement operation, and when generic_i2c_complete_cb or the soft     *)
(* reset continuation invokes it as a generic callback, it was stored by a *)
(* generic operation. The user's measurement callback is the function      *)
(* sht3x_meas_complete_cb and its generic one sht3x_complete_cb.           *)
(***************************************************************************)
C38_CallbackInvokedAsRegistered ==
    \A i \in DOMAIN last.calls :
        LET call == last.calls[i]
        IN  IsUserCbCall(call) =>
                /\ call.sig = "SHT3XMeasCompleteCb" => call.cb \in MeasCompleteCbs
                /\ call.sig = "SHT3XCompleteCb" => call.cb \in CompleteCbs
                /\ call.sig = "SHT3XReadStatusRegCompleteCb" =>
                       call.cb \in ReadStatusRegCompleteCbs

(***************************************************************************)
(* C39: whenever meas_i2c_complete_cb CRC-checks or decodes a byte of the  *)
(* read buffer, that byte was filled by the bus read whose completion is   *)
(* being handled: every index it reads (0-1 and 2 for temperature and its  *)
(* CRC, 3-4 and 5 for humidity and its CRC) is below the length requested  *)
(* for that read, and the length never exceeds the 6-byte buffer. The      *)
(* indexes are those of the C array; the handler checks the humidity CRC   *)
(* first, then the temperature CRC, and decodes only if neither failed.    *)
(***************************************************************************)
C39_DecodedBytesWereRead ==
    [][(/\ last'.event = "i2c_read_complete"
        /\ last'.fn = "meas_i2c_complete_cb"
        /\ last'.result_code = <<SHT3X_I2C_RESULT_CODE_OK>>) =>
           LET flags == self.sequence_flags
               buf == self'.i2c_read_buf
               Has(f) == FlagSet(flags, f)
               hum_crc_bad == Has(SHT3X_FLAG_VERIFY_CRC_HUM) /\ sht3x_crc8(buf, 4) # buf[6]
               temp_crc_bad == Has(SHT3X_FLAG_VERIFY_CRC_TEMP) /\ sht3x_crc8(buf, 1) # buf[3]
               decoded == ~hum_crc_bad /\ ~temp_crc_bad
               indexes ==
                   (IF Has(SHT3X_FLAG_VERIFY_CRC_HUM) THEN {3, 4, 5} ELSE {})
                   \cup (IF ~hum_crc_bad /\ Has(SHT3X_FLAG_VERIFY_CRC_TEMP) THEN {0, 1, 2} ELSE {})
                   \cup (IF decoded /\ Has(SHT3X_FLAG_READ_TEMP) THEN {0, 1} ELSE {})
                   \cup (IF decoded /\ Has(SHT3X_FLAG_READ_HUM) THEN {3, 4} ELSE {})
           IN  \E r \in BagToSet(pending) :
                   /\ r.fn = "i2c_read"
                   /\ r.seq = last'.seq
                   /\ CopiesIn(r, pending') < CopiesIn(r, pending)
                   /\ r.arg <= SHT3X_I2C_READ_BUF_SIZE
                   /\ \A index \in indexes : index < r.arg]_vars

(***************************************************************************)
(* C40: two instances are independent. A public operation or a bus or      *)
(* timer completion on one instance never changes the stored state of      *)
(* another instance, never makes it busy, and never invokes a callback     *)
(* registered with it; the trace observed on instance B is the same        *)
(* whatever is done on instance A. Stated for every step of the driver on  *)
(* the instance self: the memory of the other instance and the requests    *)
(* that the other instance has outstanding stay as they are, every hook    *)
(* the step calls gets this instance as the user data of its continuation  *)
(* and this instance's address, and every user callback the step invokes   *)
(* is the one stored in this instance, with this instance's user data.     *)
(***************************************************************************)
C40_InstancesIndependent ==
    [][(self'.this = self.this) =>
           /\ other' = other
           /\ \A r \in BagToSet(pending) \cup BagToSet(pending') :
                  r.cb_user_data # self.this => CopiesIn(r, pending') = CopiesIn(r, pending)
           /\ \A i \in DOMAIN last'.calls :
                  LET call == last'.calls[i]
                  IN  /\ IsHookCall(call) => call.cb_user_data = self.this
                      /\ call.fn \in {"i2c_write", "i2c_read"} => call.i2c_addr = self.i2c_addr
                      /\ IsUserCbCall(call) =>
                             /\ call.cb = self'.sequence_cb
                             /\ call.user_data = self'.sequence_cb_user_data
                             /\ call.user_data # other.sequence_cb_user_data]_vars

\* A sequence of one instance ends with its callback while the other
\* instance, with a callback of its own stored, has a request outstanding.
C40_Witness ==
    /\ other.this # NULL
    /\ last.event \in CompletionEvents
    /\ Len(last.calls) = 1
    /\ IsUserCbCall(last.calls[1])
    /\ last.calls[1].user_data = self.sequence_cb_user_data
    /\ other.sequence_cb # NULL
    /\ \E r \in BagToSet(pending) : r.cb_user_data = other.this

====
